---- MODULE Spec2Model ----
(***************************************************************************)
(* The Blitz backend: six resource collections (profiles, skills,          *)
(* projects, connections, messages, endorsements) behind generic           *)
(* list/retrieve/create/update/partial_update/destroy handlers, over one   *)
(* relational store, with bearer-token authentication.                     *)
(*                                                                         *)
(* A handler is one action: it authenticates, looks the record up,         *)
(* validates the payload with the entity's serializer, writes the store    *)
(* (with its cascades) and leaves the response in resp.                    *)
(***************************************************************************)
EXTENDS Integers, FiniteSets, Sequences, TLC

(* ------------------------------ bounds -------------------------------- *)
MaxAccounts == 2
MaxSkills == 2
MaxProjects == 1
MaxConnections == 2
MaxMessages == 1
MaxEndorsements == 2
MaxClock == 1
MaxTokens == 3
MaxClients == 2

(* --------------------------- value domains ---------------------------- *)
\* A reference or id that is not given (payload) or is NULL (store).
NullId == 0
\* A text field that the payload does not carry.
Absent == "absent"
\* A text field stored as NULL.
Null == "null"
NoToken == 0

Accounts == 1 .. MaxAccounts
Tokens == 1 .. MaxTokens
Clients == 1 .. MaxClients

PROFICIENCY_CHOICES == {"beginner", "intermediate", "advanced", "expert"}
STATUS_CHOICES == {"pending", "connected"}

(* ------------------------------ payloads ------------------------------ *)
\* The ids of the tables and the request bodies of the serializers, each
\* field given, left out, or given a value its field refuses.
ProfileIds == Accounts
SkillIds == 1 .. MaxSkills
ProjectIds == 1 .. MaxProjects
ConnectionIds == 1 .. MaxConnections
MessageIds == 1 .. MaxMessages
EndorsementIds == 1 .. MaxEndorsements
Bearers == Tokens \cup {NoToken}

ProfileData ==
    [id : {NullId, 1},
     email : {"dev@example.com", "jane@example.com", "not-an-email", Absent},
     full_name : {"Jane", Absent}]
SkillData ==
    [profile : ProfileIds \cup {NullId},
     skill_name : {"Python", Absent},
     proficiency : PROFICIENCY_CHOICES \cup {"guru", Absent}]
ProjectData ==
    [profile : ProfileIds \cup {NullId}, title : {"Blitz", Absent}]
ConnectionData ==
    [follower : ProfileIds \cup {NullId}, following : ProfileIds \cup {NullId},
     status : STATUS_CHOICES \cup {"blocked", Absent}]
MessageData ==
    [sender : ProfileIds \cup {NullId}, receiver : ProfileIds \cup {NullId},
     content : {"hello", Absent}, read : BOOLEAN]
EndorsementData ==
    [endorser : ProfileIds \cup {NullId}, endorsee : ProfileIds \cup {NullId},
     skill : SkillIds \cup {NullId}]

VARIABLES
    backend,        \* what the store does with a NULL integer primary key
    atomic_requests, \* whether a request that raises is rolled back
    users,          \* the accounts (auth User rows)
    profiles, skills, projects, connections, messages, endorsements,
    nextSkill, nextProject, nextConnection, nextMessage, nextEndorsement,
    now,            \* the server clock
    access, refresh, nextToken,
    inflight,       \* the requests that have read the store and not yet written
    resp            \* the request just handled and its response

store == <<profiles, skills, projects, connections, messages, endorsements>>
counters == <<nextSkill, nextProject, nextConnection, nextMessage, nextEndorsement>>
tokens == <<access, refresh, nextToken>>
build == <<backend, atomic_requests>>
vars == <<build, users, store, counters, now, tokens, inflight, resp>>

Max(S) == CHOOSE x \in S : \A y \in S : y <= x

(* ----------------------------- responses ------------------------------ *)
Response(ent, op, tok, pk, data, status, body) ==
    [status |-> status, ent |-> ent, op |-> op, tok |-> tok, pk |-> pk,
     data |-> data, body |-> body]

NoData == [none |-> TRUE]

(* --------------------------- authentication --------------------------- *)
\* The bearer token of the request is an access token that was issued and
\* has not expired.
IsAuthenticated(tok) == tok \in access

\* A handler that answers without writing anything.
Reply(r) ==
    /\ resp' = r
    /\ UNCHANGED <<build, inflight, users, store, counters, now, tokens>>

Ids(rows) == {r.id : r \in rows}
Row(rows, pk) == CHOOSE r \in rows : r.id = pk

(* ------------------------------ cascades ------------------------------ *)
\* A skill foreign key that does not cascade: the delete of a skill
\* collects no endorsement.
SkillsCollected_none(pks) == {}

\* Skill.delete(): the endorsements of the skills go with them.
SkillsCollected(pks) == {e \in endorsements : e.skill \in pks}

\* Profile_delete that follows only the first foreign key of each table.
Profile_delete_first_key_only(pk) ==
    LET gone == {s \in skills : s.profile = pk} IN
    /\ profiles' = {p \in profiles : p.id # pk}
    /\ skills' = skills \ gone
    /\ projects' = {p \in projects : p.profile # pk}
    /\ connections' = {c \in connections : c.follower # pk}
    /\ messages' = {m \in messages : m.sender # pk}
    /\ endorsements' = {e \in endorsements \ SkillsCollected(Ids(gone)) : e.endorser # pk}

\* Profile.delete(): every row that references the profile through a
\* CASCADE foreign key, and the endorsements of its skills.
Profile_delete(pk) ==
    LET gone == {s \in skills : s.profile = pk} IN
    /\ profiles' = {p \in profiles : p.id # pk}
    /\ skills' = skills \ gone
    /\ projects' = {p \in projects : p.profile # pk}
    /\ connections' = {c \in connections : c.follower # pk /\ c.following # pk}
    /\ messages' = {m \in messages : m.sender # pk /\ m.receiver # pk}
    /\ endorsements' = {e \in endorsements \ SkillsCollected(Ids(gone)) :
                            e.endorser # pk /\ e.endorsee # pk}

Skill_delete(pk) ==
    /\ skills' = {s \in skills : s.id # pk}
    /\ endorsements' = endorsements \ SkillsCollected({pk})
    /\ UNCHANGED <<profiles, projects, connections, messages>>

(* ------------------------------ profiles ------------------------------ *)
\* EmailField: the addresses the validator accepts.
ValidEmails == {"dev@example.com", "jane@example.com"}

\* The fields of the payload that fail validation. id, created_at and
\* updated_at are read-only: whatever the payload gives for them is dropped.
ProfileSerializer_errors(data, partial) ==
    {f \in {"email"} :
        \/ data.email = Absent /\ ~partial
        \/ data.email # Absent /\ data.email \notin ValidEmails}

\* The value the store gives a row inserted with a NULL primary key, where
\* the store fills an integer primary key in: one more than the largest.
NextRowid(rows) == IF rows = {} THEN 1 ELSE Max(Ids(rows)) + 1

\* ProfileSerializer renders id with IntegerField from the attribute id,
\* which for a saved Profile is the User object, not a number: rendering
\* raises. It renders only an instance whose id is still unset.
ProfileSerializer_renders(row) == row.id = NullId

ProfileViewSet_list(tok) ==
    IF ~IsAuthenticated(tok)
    THEN Reply(Response("profile", "list", tok, NullId, NoData, 401, {}))
    ELSE IF \A p \in profiles : ProfileSerializer_renders(p)
    THEN Reply(Response("profile", "list", tok, NullId, NoData, 200, profiles))
    ELSE Reply(Response("profile", "list", tok, NullId, NoData, 500, {}))

ProfileViewSet_retrieve(tok, pk) ==
    IF ~IsAuthenticated(tok)
    THEN Reply(Response("profile", "retrieve", tok, pk, NoData, 401, {}))
    ELSE IF pk \notin Ids(profiles)
    THEN Reply(Response("profile", "retrieve", tok, pk, NoData, 404, {}))
    ELSE IF ProfileSerializer_renders(Row(profiles, pk))
    THEN Reply(Response("profile", "retrieve", tok, pk, NoData, 200, {Row(profiles, pk)}))
    ELSE Reply(Response("profile", "retrieve", tok, pk, NoData, 500, {}))

\* Profile.objects.create(**validated_data): validated_data has no id, so
\* the row is inserted with a NULL primary key. A store that refuses NULL
\* there raises IntegrityError. A store that fills the key in takes the
\* next rowid, and the foreign key to the account must then hold; the
\* instance in hand keeps id unset, and that is what the response renders.
ProfileViewSet_create(tok, data) ==
    IF ~IsAuthenticated(tok)
    THEN Reply(Response("profile", "create", tok, NullId, data, 401, {}))
    ELSE IF ProfileSerializer_errors(data, FALSE) # {}
    THEN Reply(Response("profile", "create", tok, NullId, data, 400, {}))
    ELSE IF backend = "strict" \/ NextRowid(profiles) \notin users
    THEN Reply(Response("profile", "create", tok, NullId, data, 500, {}))
    ELSE LET row == [id |-> NextRowid(profiles),
                     email |-> data.email,
                     full_name |-> IF data.full_name = Absent THEN Null ELSE data.full_name,
                     created_at |-> now, updated_at |-> now]
         IN /\ profiles' = profiles \cup {row}
            /\ resp' = Response("profile", "create", tok, NullId, data, 201,
                                {[row EXCEPT !.id = NullId]})
            /\ UNCHANGED <<build, inflight, users, skills, projects, connections, messages,
                           endorsements, counters, now, tokens>>

\* update and partial_update: the row is saved, then the response is
\* rendered from the saved instance, which raises (its id is a User). Under
\* request-scoped transactions the save is rolled back with the request.
ProfileViewSet_update(tok, pk, data, partial) ==
    LET op == IF partial THEN "partial_update" ELSE "update" IN
    IF ~IsAuthenticated(tok)
    THEN Reply(Response("profile", op, tok, pk, data, 401, {}))
    ELSE IF pk \notin Ids(profiles)
    THEN Reply(Response("profile", op, tok, pk, data, 404, {}))
    ELSE IF ProfileSerializer_errors(data, partial) # {}
    THEN Reply(Response("profile", op, tok, pk, data, 400, {}))
    ELSE LET old == Row(profiles, pk)
             row == [old EXCEPT
                        !.email = IF data.email = Absent THEN @ ELSE data.email,
                        !.full_name = IF data.full_name = Absent THEN @ ELSE data.full_name,
                        !.updated_at = now]
         IN IF ProfileSerializer_renders(row)
            THEN /\ profiles' = (profiles \ {old}) \cup {row}
                 /\ resp' = Response("profile", op, tok, pk, data, 200, {row})
                 /\ UNCHANGED <<build, inflight, users, skills, projects, connections, messages,
                                endorsements, counters, now, tokens>>
            ELSE /\ profiles' = IF atomic_requests THEN profiles
                                ELSE (profiles \ {old}) \cup {row}
                 /\ resp' = Response("profile", op, tok, pk, data, 500, {})
                 /\ UNCHANGED <<build, inflight, users, skills, projects, connections, messages,
                                endorsements, counters, now, tokens>>

ProfileViewSet_partial_update(tok, pk, data) == ProfileViewSet_update(tok, pk, data, TRUE)

ProfileViewSet_destroy(tok, pk) ==
    IF ~IsAuthenticated(tok)
    THEN Reply(Response("profile", "destroy", tok, pk, NoData, 401, {}))
    ELSE IF pk \notin Ids(profiles)
    THEN Reply(Response("profile", "destroy", tok, pk, NoData, 404, {}))
    ELSE /\ Profile_delete(pk)
         /\ resp' = Response("profile", "destroy", tok, pk, NoData, 204, {})
         /\ UNCHANGED <<build, inflight, users, counters, now, tokens>>

(* --------------------------- field validation ------------------------- *)
\* Related_invalid that does not look the row up.
Related_invalid_required_only(v, partial, rows) == v = NullId /\ ~partial

\* PrimaryKeyRelatedField(queryset=...): required unless the update is
\* partial, and the row it names must be in the queryset.
Related_invalid(v, partial, rows) ==
    \/ v = NullId /\ ~partial
    \/ v # NullId /\ v \notin Ids(rows)

\* A required CharField.
Char_invalid(v, partial) == v = Absent /\ ~partial

\* A ChoiceField; with a default it need not be given.
Choice_invalid(v, partial, choices, has_default) ==
    \/ v = Absent /\ ~partial /\ ~has_default
    \/ v # Absent /\ v \notin choices

(* ------------------------------- skills ------------------------------- *)
\* SkillSerializer_errors with proficiency taken as free text.
SkillSerializer_errors_free_proficiency(data, partial) ==
    {f \in {"profile", "skill_name", "proficiency"} :
        \/ f = "profile" /\ Related_invalid(data.profile, partial, profiles)
        \/ f = "skill_name" /\ Char_invalid(data.skill_name, partial)
        \/ f = "proficiency" /\ Char_invalid(data.proficiency, partial)}

SkillSerializer_errors(data, partial) ==
    {f \in {"profile", "skill_name", "proficiency"} :
        \/ f = "profile" /\ Related_invalid(data.profile, partial, profiles)
        \/ f = "skill_name" /\ Char_invalid(data.skill_name, partial)
        \/ f = "proficiency"
            /\ Choice_invalid(data.proficiency, partial, PROFICIENCY_CHOICES, FALSE)}

SkillViewSet_list(tok) ==
    IF ~IsAuthenticated(tok)
    THEN Reply(Response("skill", "list", tok, NullId, NoData, 401, {}))
    ELSE Reply(Response("skill", "list", tok, NullId, NoData, 200, skills))

SkillViewSet_retrieve(tok, pk) ==
    IF ~IsAuthenticated(tok)
    THEN Reply(Response("skill", "retrieve", tok, pk, NoData, 401, {}))
    ELSE IF pk \notin Ids(skills)
    THEN Reply(Response("skill", "retrieve", tok, pk, NoData, 404, {}))
    ELSE Reply(Response("skill", "retrieve", tok, pk, NoData, 200, {Row(skills, pk)}))

\* SkillViewSet_create that inserts the row before it checks proficiency.
SkillViewSet_create_saves_first(tok, data) ==
    IF ~IsAuthenticated(tok)
    THEN Reply(Response("skill", "create", tok, NullId, data, 401, {}))
    ELSE IF SkillSerializer_errors(data, FALSE) \ {"proficiency"} # {}
    THEN Reply(Response("skill", "create", tok, NullId, data, 400, {}))
    ELSE LET row == [id |-> nextSkill, profile |-> data.profile,
                     skill_name |-> data.skill_name,
                     proficiency |-> data.proficiency, created_at |-> now]
             ok == SkillSerializer_errors(data, FALSE) = {}
         IN /\ nextSkill <= MaxSkills
            /\ skills' = skills \cup {row}
            /\ nextSkill' = nextSkill + 1
            /\ resp' = Response("skill", "create", tok, NullId, data,
                                IF ok THEN 201 ELSE 400, IF ok THEN {row} ELSE {})
            /\ UNCHANGED <<build, inflight, users, profiles, projects, connections, messages,
                           endorsements, nextProject, nextConnection, nextMessage,
                           nextEndorsement, now, tokens>>

\* SkillViewSet_create with id writable: the row is saved under the id the
\* payload gives.
SkillViewSet_create_writable_id(tok, data) ==
    IF ~IsAuthenticated(tok)
    THEN Reply(Response("skill", "create", tok, NullId, data, 401, {}))
    ELSE IF SkillSerializer_errors(data, FALSE) # {}
    THEN Reply(Response("skill", "create", tok, NullId, data, 400, {}))
    ELSE LET row == [id |-> data.id, profile |-> data.profile,
                     skill_name |-> data.skill_name,
                     proficiency |-> data.proficiency, created_at |-> now]
         IN /\ nextSkill <= MaxSkills
            /\ skills' = {k \in skills : k.id # data.id} \cup {row}
            /\ nextSkill' = nextSkill + 1
            /\ resp' = Response("skill", "create", tok, NullId, data, 201, {row})
            /\ UNCHANGED <<build, inflight, users, profiles, projects, connections, messages,
                           endorsements, nextProject, nextConnection, nextMessage,
                           nextEndorsement, now, tokens>>

SkillViewSet_create(tok, data) ==
    IF ~IsAuthenticated(tok)
    THEN Reply(Response("skill", "create", tok, NullId, data, 401, {}))
    ELSE IF SkillSerializer_errors(data, FALSE) # {}
    THEN Reply(Response("skill", "create", tok, NullId, data, 400, {}))
    ELSE LET row == [id |-> nextSkill, profile |-> data.profile,
                     skill_name |-> data.skill_name,
                     proficiency |-> data.proficiency, created_at |-> now]
         IN /\ nextSkill <= MaxSkills
            /\ skills' = skills \cup {row}
            /\ nextSkill' = nextSkill + 1
            /\ resp' = Response("skill", "create", tok, NullId, data, 201, {row})
            /\ UNCHANGED <<build, inflight, users, profiles, projects, connections, messages,
                           endorsements, nextProject, nextConnection, nextMessage,
                           nextEndorsement, now, tokens>>

SkillViewSet_update(tok, pk, data, partial) ==
    LET op == IF partial THEN "partial_update" ELSE "update" IN
    IF ~IsAuthenticated(tok)
    THEN Reply(Response("skill", op, tok, pk, data, 401, {}))
    ELSE IF pk \notin Ids(skills)
    THEN Reply(Response("skill", op, tok, pk, data, 404, {}))
    ELSE IF SkillSerializer_errors(data, partial) # {}
    THEN Reply(Response("skill", op, tok, pk, data, 400, {}))
    ELSE LET old == Row(skills, pk)
             row == [old EXCEPT
                        !.profile = IF data.profile = NullId THEN @ ELSE data.profile,
                        !.skill_name = IF data.skill_name = Absent THEN @ ELSE data.skill_name,
                        !.proficiency = IF data.proficiency = Absent THEN @
                                        ELSE data.proficiency]
         IN /\ skills' = (skills \ {old}) \cup {row}
            /\ resp' = Response("skill", op, tok, pk, data, 200, {row})
            /\ UNCHANGED <<build, inflight, users, profiles, projects, connections, messages,
                           endorsements, counters, now, tokens>>

SkillViewSet_partial_update(tok, pk, data) == SkillViewSet_update(tok, pk, data, TRUE)

\* SkillViewSet_destroy open to every caller.
SkillViewSet_destroy_open(tok, pk) ==
    IF pk \notin Ids(skills)
    THEN Reply(Response("skill", "destroy", tok, pk, NoData, 404, {}))
    ELSE /\ Skill_delete(pk)
         /\ resp' = Response("skill", "destroy", tok, pk, NoData, 204, {})
         /\ UNCHANGED <<build, inflight, users, counters, now, tokens>>

SkillViewSet_destroy(tok, pk) ==
    IF ~IsAuthenticated(tok)
    THEN Reply(Response("skill", "destroy", tok, pk, NoData, 401, {}))
    ELSE IF pk \notin Ids(skills)
    THEN Reply(Response("skill", "destroy", tok, pk, NoData, 404, {}))
    ELSE /\ Skill_delete(pk)
         /\ resp' = Response("skill", "destroy", tok, pk, NoData, 204, {})
         /\ UNCHANGED <<build, inflight, users, counters, now, tokens>>

(* ------------------------------ projects ------------------------------ *)
ProjectSerializer_errors(data, partial) ==
    {f \in {"profile", "title"} :
        \/ f = "profile" /\ Related_invalid(data.profile, partial, profiles)
        \/ f = "title" /\ Char_invalid(data.title, partial)}

ProjectViewSet_list(tok) ==
    IF ~IsAuthenticated(tok)
    THEN Reply(Response("project", "list", tok, NullId, NoData, 401, {}))
    ELSE Reply(Response("project", "list", tok, NullId, NoData, 200, projects))

ProjectViewSet_retrieve(tok, pk) ==
    IF ~IsAuthenticated(tok)
    THEN Reply(Response("project", "retrieve", tok, pk, NoData, 401, {}))
    ELSE IF pk \notin Ids(projects)
    THEN Reply(Response("project", "retrieve", tok, pk, NoData, 404, {}))
    ELSE Reply(Response("project", "retrieve", tok, pk, NoData, 200, {Row(projects, pk)}))

ProjectViewSet_create(tok, data) ==
    IF ~IsAuthenticated(tok)
    THEN Reply(Response("project", "create", tok, NullId, data, 401, {}))
    ELSE IF ProjectSerializer_errors(data, FALSE) # {}
    THEN Reply(Response("project", "create", tok, NullId, data, 400, {}))
    ELSE LET row == [id |-> nextProject, profile |-> data.profile, title |-> data.title,
                     created_at |-> now, updated_at |-> now]
         IN /\ nextProject <= MaxProjects
            /\ projects' = projects \cup {row}
            /\ nextProject' = nextProject + 1
            /\ resp' = Response("project", "create", tok, NullId, data, 201, {row})
            /\ UNCHANGED <<build, inflight, users, profiles, skills, connections, messages,
                           endorsements, nextSkill, nextConnection, nextMessage,
                           nextEndorsement, now, tokens>>

\* ProjectViewSet_update that saves every writable field of the payload,
\* also those a partial payload leaves out.
ProjectViewSet_update_saves_unnamed(tok, pk, data, partial) ==
    LET op == IF partial THEN "partial_update" ELSE "update" IN
    IF ~IsAuthenticated(tok)
    THEN Reply(Response("project", op, tok, pk, data, 401, {}))
    ELSE IF pk \notin Ids(projects)
    THEN Reply(Response("project", op, tok, pk, data, 404, {}))
    ELSE IF ProjectSerializer_errors(data, partial) # {}
    THEN Reply(Response("project", op, tok, pk, data, 400, {}))
    ELSE LET old == Row(projects, pk)
             row == [old EXCEPT
                        !.profile = IF data.profile = NullId THEN @ ELSE data.profile,
                        !.title = IF data.title = Absent THEN "" ELSE data.title,
                        !.updated_at = now]
         IN /\ projects' = (projects \ {old}) \cup {row}
            /\ resp' = Response("project", op, tok, pk, data, 200, {row})
            /\ UNCHANGED <<build, inflight, users, profiles, skills, connections, messages,
                           endorsements, counters, now, tokens>>

ProjectViewSet_update(tok, pk, data, partial) ==
    LET op == IF partial THEN "partial_update" ELSE "update" IN
    IF ~IsAuthenticated(tok)
    THEN Reply(Response("project", op, tok, pk, data, 401, {}))
    ELSE IF pk \notin Ids(projects)
    THEN Reply(Response("project", op, tok, pk, data, 404, {}))
    ELSE IF ProjectSerializer_errors(data, partial) # {}
    THEN Reply(Response("project", op, tok, pk, data, 400, {}))
    ELSE LET old == Row(projects, pk)
             row == [old EXCEPT
                        !.profile = IF data.profile = NullId THEN @ ELSE data.profile,
                        !.title = IF data.title = Absent THEN @ ELSE data.title,
                        !.updated_at = now]
         IN /\ projects' = (projects \ {old}) \cup {row}
            /\ resp' = Response("project", op, tok, pk, data, 200, {row})
            /\ UNCHANGED <<build, inflight, users, profiles, skills, connections, messages,
                           endorsements, counters, now, tokens>>

ProjectViewSet_partial_update(tok, pk, data) == ProjectViewSet_update(tok, pk, data, TRUE)

\* ProjectViewSet_destroy whose delete runs up the foreign key: the owning
\* profile goes with the project.
ProjectViewSet_destroy_with_owner(tok, pk) ==
    IF ~IsAuthenticated(tok)
    THEN Reply(Response("project", "destroy", tok, pk, NoData, 401, {}))
    ELSE IF pk \notin Ids(projects)
    THEN Reply(Response("project", "destroy", tok, pk, NoData, 404, {}))
    ELSE /\ Profile_delete(Row(projects, pk).profile)
         /\ resp' = Response("project", "destroy", tok, pk, NoData, 204, {})
         /\ UNCHANGED <<build, inflight, users, counters, now, tokens>>

ProjectViewSet_destroy(tok, pk) ==
    IF ~IsAuthenticated(tok)
    THEN Reply(Response("project", "destroy", tok, pk, NoData, 401, {}))
    ELSE IF pk \notin Ids(projects)
    THEN Reply(Response("project", "destroy", tok, pk, NoData, 404, {}))
    ELSE /\ projects' = {p \in projects : p.id # pk}
         /\ resp' = Response("project", "destroy", tok, pk, NoData, 204, {})
         /\ UNCHANGED <<build, inflight, users, profiles, skills, connections, messages,
                        endorsements, counters, now, tokens>>

(* ----------------------------- connections ---------------------------- *)
\* Connection_taken with the pair read as unordered.
Connection_taken_unordered(follower, following, pk) ==
    \E c \in connections :
        /\ c.id # pk
        /\ \/ c.follower = follower /\ c.following = following
           \/ c.follower = following /\ c.following = follower

\* Connection_taken that counts the row under update itself.
Connection_taken_with_self(follower, following, pk) ==
    \E c \in connections : c.follower = follower /\ c.following = following

\* unique_together = ('follower', 'following'): another row already holds
\* the pair. On an update the row itself (pk) is left out.
Connection_taken(follower, following, pk) ==
    \E c \in connections :
        c.id # pk /\ c.follower = follower /\ c.following = following

\* ConnectionSerializer_errors without the unique-together validator.
ConnectionSerializer_errors_fields_only(data, partial, pk) ==
    {f \in {"follower", "following", "status"} :
        \/ f = "follower" /\ Related_invalid(data.follower, partial, profiles)
        \/ f = "following" /\ Related_invalid(data.following, partial, profiles)
        \/ f = "status" /\ Choice_invalid(data.status, partial, STATUS_CHOICES, TRUE)}

\* ConnectionSerializer_errors with status taken as free text.
ConnectionSerializer_errors_free_status(data, partial, pk) ==
    LET fields == {f \in {"follower", "following"} :
            \/ f = "follower" /\ Related_invalid(data.follower, partial, profiles)
            \/ f = "following" /\ Related_invalid(data.following, partial, profiles)}
        follower == IF data.follower = NullId THEN Row(connections, pk).follower
                    ELSE data.follower
        following == IF data.following = NullId THEN Row(connections, pk).following
                     ELSE data.following
    IN IF fields # {} THEN fields
       ELSE IF Connection_taken(follower, following, pk) THEN {"non_field_errors"}
       ELSE {}

\* ConnectionSerializer_errors with a guard against following oneself.
ConnectionSerializer_errors_no_self_follow(data, partial, pk) ==
    LET fields == {f \in {"follower", "following", "status"} :
            \/ f = "follower" /\ Related_invalid(data.follower, partial, profiles)
            \/ f = "following" /\ Related_invalid(data.following, partial, profiles)
            \/ f = "status" /\ Choice_invalid(data.status, partial, STATUS_CHOICES, TRUE)}
        follower == IF data.follower = NullId THEN Row(connections, pk).follower
                    ELSE data.follower
        following == IF data.following = NullId THEN Row(connections, pk).following
                     ELSE data.following
    IN IF fields # {} THEN fields
       ELSE IF follower = following \/ Connection_taken(follower, following, pk)
       THEN {"non_field_errors"}
       ELSE {}

\* Field errors first; the unique-together validator runs once the fields
\* are sound, on the payload completed from the instance.
ConnectionSerializer_errors(data, partial, pk) ==
    LET fields == {f \in {"follower", "following", "status"} :
            \/ f = "follower" /\ Related_invalid(data.follower, partial, profiles)
            \/ f = "following" /\ Related_invalid(data.following, partial, profiles)
            \/ f = "status" /\ Choice_invalid(data.status, partial, STATUS_CHOICES, TRUE)}
        follower == IF data.follower = NullId THEN Row(connections, pk).follower
                    ELSE data.follower
        following == IF data.following = NullId THEN Row(connections, pk).following
                     ELSE data.following
    IN IF fields # {} THEN fields
       ELSE IF Connection_taken(follower, following, pk) THEN {"non_field_errors"}
       ELSE {}

ConnectionViewSet_list(tok) ==
    IF ~IsAuthenticated(tok)
    THEN Reply(Response("connection", "list", tok, NullId, NoData, 401, {}))
    ELSE Reply(Response("connection", "list", tok, NullId, NoData, 200, connections))

ConnectionViewSet_retrieve(tok, pk) ==
    IF ~IsAuthenticated(tok)
    THEN Reply(Response("connection", "retrieve", tok, pk, NoData, 401, {}))
    ELSE IF pk \notin Ids(connections)
    THEN Reply(Response("connection", "retrieve", tok, pk, NoData, 404, {}))
    ELSE Reply(Response("connection", "retrieve", tok, pk, NoData, 200,
                        {Row(connections, pk)}))

\* The insert itself is checked by the store's unique constraint.
ConnectionViewSet_create(tok, data) ==
    IF ~IsAuthenticated(tok)
    THEN Reply(Response("connection", "create", tok, NullId, data, 401, {}))
    ELSE IF ConnectionSerializer_errors(data, FALSE, NullId) # {}
    THEN Reply(Response("connection", "create", tok, NullId, data, 400, {}))
    ELSE IF Connection_taken(data.follower, data.following, NullId)
    THEN Reply(Response("connection", "create", tok, NullId, data, 500, {}))
    ELSE LET row == [id |-> nextConnection, follower |-> data.follower,
                     following |-> data.following,
                     status |-> IF data.status = Absent THEN "connected" ELSE data.status,
                     created_at |-> now]
         IN /\ nextConnection <= MaxConnections
            /\ connections' = connections \cup {row}
            /\ nextConnection' = nextConnection + 1
            /\ resp' = Response("connection", "create", tok, NullId, data, 201, {row})
            /\ UNCHANGED <<build, inflight, users, profiles, skills, projects, messages,
                           endorsements, nextSkill, nextProject, nextMessage,
                           nextEndorsement, now, tokens>>

\* ConnectionViewSet_update whose serializer takes created_at from the
\* payload like a writable field.
ConnectionViewSet_update_writable_created_at(tok, pk, data, partial) ==
    LET op == IF partial THEN "partial_update" ELSE "update" IN
    IF ~IsAuthenticated(tok)
    THEN Reply(Response("connection", op, tok, pk, data, 401, {}))
    ELSE IF pk \notin Ids(connections)
    THEN Reply(Response("connection", op, tok, pk, data, 404, {}))
    ELSE IF ConnectionSerializer_errors(data, partial, pk) # {}
    THEN Reply(Response("connection", op, tok, pk, data, 400, {}))
    ELSE LET old == Row(connections, pk)
             row == [old EXCEPT
                        !.follower = IF data.follower = NullId THEN @ ELSE data.follower,
                        !.following = IF data.following = NullId THEN @ ELSE data.following,
                        !.status = IF data.status # Absent THEN data.status
                                   ELSE IF partial THEN @ ELSE "connected",
                        !.created_at = data.created_at]
         IN IF Connection_taken(row.follower, row.following, pk)
            THEN Reply(Response("connection", op, tok, pk, data, 500, {}))
            ELSE /\ connections' = (connections \ {old}) \cup {row}
                 /\ resp' = Response("connection", op, tok, pk, data, 200, {row})
                 /\ UNCHANGED <<build, inflight, users, profiles, skills, projects, messages,
                                endorsements, counters, now, tokens>>

\* A full update that gives no status applies the field's default; a
\* partial one leaves the stored status.
ConnectionViewSet_update(tok, pk, data, partial) ==
    LET op == IF partial THEN "partial_update" ELSE "update" IN
    IF ~IsAuthenticated(tok)
    THEN Reply(Response("connection", op, tok, pk, data, 401, {}))
    ELSE IF pk \notin Ids(connections)
    THEN Reply(Response("connection", op, tok, pk, data, 404, {}))
    ELSE IF ConnectionSerializer_errors(data, partial, pk) # {}
    THEN Reply(Response("connection", op, tok, pk, data, 400, {}))
    ELSE LET old == Row(connections, pk)
             row == [old EXCEPT
                        !.follower = IF data.follower = NullId THEN @ ELSE data.follower,
                        !.following = IF data.following = NullId THEN @ ELSE data.following,
                        !.status = IF data.status # Absent THEN data.status
                                   ELSE IF partial THEN @ ELSE "connected"]
         IN IF Connection_taken(row.follower, row.following, pk)
            THEN Reply(Response("connection", op, tok, pk, data, 500, {}))
            ELSE /\ connections' = (connections \ {old}) \cup {row}
                 /\ resp' = Response("connection", op, tok, pk, data, 200, {row})
                 /\ UNCHANGED <<build, inflight, users, profiles, skills, projects, messages,
                                endorsements, counters, now, tokens>>

ConnectionViewSet_partial_update(tok, pk, data) ==
    ConnectionViewSet_update(tok, pk, data, TRUE)

ConnectionViewSet_destroy(tok, pk) ==
    IF ~IsAuthenticated(tok)
    THEN Reply(Response("connection", "destroy", tok, pk, NoData, 401, {}))
    ELSE IF pk \notin Ids(connections)
    THEN Reply(Response("connection", "destroy", tok, pk, NoData, 404, {}))
    ELSE /\ connections' = {c \in connections : c.id # pk}
         /\ resp' = Response("connection", "destroy", tok, pk, NoData, 204, {})
         /\ UNCHANGED <<build, inflight, users, profiles, skills, projects, messages,
                        endorsements, counters, now, tokens>>

(* ------------------------------ messages ------------------------------ *)
\* read is read-only: the payload's value for it is dropped.
MessageSerializer_errors(data, partial) ==
    {f \in {"sender", "receiver", "content"} :
        \/ f = "sender" /\ Related_invalid(data.sender, partial, profiles)
        \/ f = "receiver" /\ Related_invalid(data.receiver, partial, profiles)
        \/ f = "content" /\ Char_invalid(data.content, partial)}

MessageViewSet_list(tok) ==
    IF ~IsAuthenticated(tok)
    THEN Reply(Response("message", "list", tok, NullId, NoData, 401, {}))
    ELSE Reply(Response("message", "list", tok, NullId, NoData, 200, messages))

MessageViewSet_retrieve(tok, pk) ==
    IF ~IsAuthenticated(tok)
    THEN Reply(Response("message", "retrieve", tok, pk, NoData, 401, {}))
    ELSE IF pk \notin Ids(messages)
    THEN Reply(Response("message", "retrieve", tok, pk, NoData, 404, {}))
    ELSE Reply(Response("message", "retrieve", tok, pk, NoData, 200, {Row(messages, pk)}))

\* MessageViewSet_create with read writable.
MessageViewSet_create_read_writable(tok, data) ==
    IF ~IsAuthenticated(tok)
    THEN Reply(Response("message", "create", tok, NullId, data, 401, {}))
    ELSE IF MessageSerializer_errors(data, FALSE) # {}
    THEN Reply(Response("message", "create", tok, NullId, data, 400, {}))
    ELSE LET row == [id |-> nextMessage, sender |-> data.sender,
                     receiver |-> data.receiver, content |-> data.content,
                     read |-> data.read, created_at |-> now]
         IN /\ nextMessage <= MaxMessages
            /\ messages' = messages \cup {row}
            /\ nextMessage' = nextMessage + 1
            /\ resp' = Response("message", "create", tok, NullId, data, 201, {row})
            /\ UNCHANGED <<build, inflight, users, profiles, skills, projects, connections,
                           endorsements, nextSkill, nextProject, nextConnection,
                           nextEndorsement, now, tokens>>

MessageViewSet_create(tok, data) ==
    IF ~IsAuthenticated(tok)
    THEN Reply(Response("message", "create", tok, NullId, data, 401, {}))
    ELSE IF MessageSerializer_errors(data, FALSE) # {}
    THEN Reply(Response("message", "create", tok, NullId, data, 400, {}))
    ELSE LET row == [id |-> nextMessage, sender |-> data.sender,
                     receiver |-> data.receiver, content |-> data.content,
                     read |-> FALSE, created_at |-> now]
         IN /\ nextMessage <= MaxMessages
            /\ messages' = messages \cup {row}
            /\ nextMessage' = nextMessage + 1
            /\ resp' = Response("message", "create", tok, NullId, data, 201, {row})
            /\ UNCHANGED <<build, inflight, users, profiles, skills, projects, connections,
                           endorsements, nextSkill, nextProject, nextConnection,
                           nextEndorsement, now, tokens>>

\* MessageViewSet_update that validates the payload before it looks the row
\* up.
MessageViewSet_update_validates_first(tok, pk, data, partial) ==
    LET op == IF partial THEN "partial_update" ELSE "update" IN
    IF ~IsAuthenticated(tok)
    THEN Reply(Response("message", op, tok, pk, data, 401, {}))
    ELSE IF MessageSerializer_errors(data, partial) # {}
    THEN Reply(Response("message", op, tok, pk, data, 400, {}))
    ELSE IF pk \notin Ids(messages)
    THEN Reply(Response("message", op, tok, pk, data, 404, {}))
    ELSE LET old == Row(messages, pk)
             row == [old EXCEPT
                        !.sender = IF data.sender = NullId THEN @ ELSE data.sender,
                        !.receiver = IF data.receiver = NullId THEN @ ELSE data.receiver,
                        !.content = IF data.content = Absent THEN @ ELSE data.content]
         IN /\ messages' = (messages \ {old}) \cup {row}
            /\ resp' = Response("message", op, tok, pk, data, 200, {row})
            /\ UNCHANGED <<build, inflight, users, profiles, skills, projects, connections,
                           endorsements, counters, now, tokens>>

MessageViewSet_update(tok, pk, data, partial) ==
    LET op == IF partial THEN "partial_update" ELSE "update" IN
    IF ~IsAuthenticated(tok)
    THEN Reply(Response("message", op, tok, pk, data, 401, {}))
    ELSE IF pk \notin Ids(messages)
    THEN Reply(Response("message", op, tok, pk, data, 404, {}))
    ELSE IF MessageSerializer_errors(data, partial) # {}
    THEN Reply(Response("message", op, tok, pk, data, 400, {}))
    ELSE LET old == Row(messages, pk)
             row == [old EXCEPT
                        !.sender = IF data.sender = NullId THEN @ ELSE data.sender,
                        !.receiver = IF data.receiver = NullId THEN @ ELSE data.receiver,
                        !.content = IF data.content = Absent THEN @ ELSE data.content]
         IN /\ messages' = (messages \ {old}) \cup {row}
            /\ resp' = Response("message", op, tok, pk, data, 200, {row})
            /\ UNCHANGED <<build, inflight, users, profiles, skills, projects, connections,
                           endorsements, counters, now, tokens>>

MessageViewSet_partial_update(tok, pk, data) == MessageViewSet_update(tok, pk, data, TRUE)

MessageViewSet_destroy(tok, pk) ==
    IF ~IsAuthenticated(tok)
    THEN Reply(Response("message", "destroy", tok, pk, NoData, 401, {}))
    ELSE IF pk \notin Ids(messages)
    THEN Reply(Response("message", "destroy", tok, pk, NoData, 404, {}))
    ELSE /\ messages' = {m \in messages : m.id # pk}
         /\ resp' = Response("message", "destroy", tok, pk, NoData, 204, {})
         /\ UNCHANGED <<build, inflight, users, profiles, skills, projects, connections,
                        endorsements, counters, now, tokens>>

(* ---------------------------- endorsements ---------------------------- *)
\* unique_together = ('endorser', 'endorsee', 'skill').
Endorsement_taken(endorser, endorsee, skill, pk) ==
    \E e \in endorsements :
        e.id # pk /\ e.endorser = endorser /\ e.endorsee = endorsee /\ e.skill = skill

\* EndorsementSerializer_errors without the unique-together validator.
EndorsementSerializer_errors_fields_only(data, partial, pk) ==
    {f \in {"endorser", "endorsee", "skill"} :
        \/ f = "endorser" /\ Related_invalid(data.endorser, partial, profiles)
        \/ f = "endorsee" /\ Related_invalid(data.endorsee, partial, profiles)
        \/ f = "skill" /\ Related_invalid(data.skill, partial, skills)}

EndorsementSerializer_errors(data, partial, pk) ==
    LET fields == {f \in {"endorser", "endorsee", "skill"} :
            \/ f = "endorser" /\ Related_invalid(data.endorser, partial, profiles)
            \/ f = "endorsee" /\ Related_invalid(data.endorsee, partial, profiles)
            \/ f = "skill" /\ Related_invalid(data.skill, partial, skills)}
        endorser == IF data.endorser = NullId THEN Row(endorsements, pk).endorser
                    ELSE data.endorser
        endorsee == IF data.endorsee = NullId THEN Row(endorsements, pk).endorsee
                    ELSE data.endorsee
        skill == IF data.skill = NullId THEN Row(endorsements, pk).skill ELSE data.skill
    IN IF fields # {} THEN fields
       ELSE IF Endorsement_taken(endorser, endorsee, skill, pk) THEN {"non_field_errors"}
       ELSE {}

EndorsementViewSet_list(tok) ==
    IF ~IsAuthenticated(tok)
    THEN Reply(Response("endorsement", "list", tok, NullId, NoData, 401, {}))
    ELSE Reply(Response("endorsement", "list", tok, NullId, NoData, 200, endorsements))

EndorsementViewSet_retrieve(tok, pk) ==
    IF ~IsAuthenticated(tok)
    THEN Reply(Response("endorsement", "retrieve", tok, pk, NoData, 401, {}))
    ELSE IF pk \notin Ids(endorsements)
    THEN Reply(Response("endorsement", "retrieve", tok, pk, NoData, 404, {}))
    ELSE Reply(Response("endorsement", "retrieve", tok, pk, NoData, 200,
                        {Row(endorsements, pk)}))

EndorsementViewSet_create(tok, data) ==
    IF ~IsAuthenticated(tok)
    THEN Reply(Response("endorsement", "create", tok, NullId, data, 401, {}))
    ELSE IF EndorsementSerializer_errors(data, FALSE, NullId) # {}
    THEN Reply(Response("endorsement", "create", tok, NullId, data, 400, {}))
    ELSE IF Endorsement_taken(data.endorser, data.endorsee, data.skill, NullId)
    THEN Reply(Response("endorsement", "create", tok, NullId, data, 500, {}))
    ELSE LET row == [id |-> nextEndorsement, endorser |-> data.endorser,
                     endorsee |-> data.endorsee, skill |-> data.skill,
                     created_at |-> now]
         IN /\ nextEndorsement <= MaxEndorsements
            /\ endorsements' = endorsements \cup {row}
            /\ nextEndorsement' = nextEndorsement + 1
            /\ resp' = Response("endorsement", "create", tok, NullId, data, 201, {row})
            /\ UNCHANGED <<build, inflight, users, profiles, skills, projects, connections,
                           messages, nextSkill, nextProject, nextConnection,
                           nextMessage, now, tokens>>

EndorsementViewSet_update(tok, pk, data, partial) ==
    LET op == IF partial THEN "partial_update" ELSE "update" IN
    IF ~IsAuthenticated(tok)
    THEN Reply(Response("endorsement", op, tok, pk, data, 401, {}))
    ELSE IF pk \notin Ids(endorsements)
    THEN Reply(Response("endorsement", op, tok, pk, data, 404, {}))
    ELSE IF EndorsementSerializer_errors(data, partial, pk) # {}
    THEN Reply(Response("endorsement", op, tok, pk, data, 400, {}))
    ELSE LET old == Row(endorsements, pk)
             row == [old EXCEPT
                        !.endorser = IF data.endorser = NullId THEN @ ELSE data.endorser,
                        !.endorsee = IF data.endorsee = NullId THEN @ ELSE data.endorsee,
                        !.skill = IF data.skill = NullId THEN @ ELSE data.skill]
         IN IF Endorsement_taken(row.endorser, row.endorsee, row.skill, pk)
            THEN Reply(Response("endorsement", op, tok, pk, data, 500, {}))
            ELSE /\ endorsements' = (endorsements \ {old}) \cup {row}
                 /\ resp' = Response("endorsement", op, tok, pk, data, 200, {row})
                 /\ UNCHANGED <<build, inflight, users, profiles, skills, projects, connections,
                                messages, counters, now, tokens>>

EndorsementViewSet_partial_update(tok, pk, data) ==
    EndorsementViewSet_update(tok, pk, data, TRUE)

\* EndorsementViewSet_destroy that answers 204 whether the row is there or
\* not.
EndorsementViewSet_destroy_idempotent(tok, pk) ==
    IF ~IsAuthenticated(tok)
    THEN Reply(Response("endorsement", "destroy", tok, pk, NoData, 401, {}))
    ELSE /\ endorsements' = {e \in endorsements : e.id # pk}
         /\ resp' = Response("endorsement", "destroy", tok, pk, NoData, 204, {})
         /\ UNCHANGED <<build, inflight, users, profiles, skills, projects, connections,
                        messages, counters, now, tokens>>

EndorsementViewSet_destroy(tok, pk) ==
    IF ~IsAuthenticated(tok)
    THEN Reply(Response("endorsement", "destroy", tok, pk, NoData, 401, {}))
    ELSE IF pk \notin Ids(endorsements)
    THEN Reply(Response("endorsement", "destroy", tok, pk, NoData, 404, {}))
    ELSE /\ endorsements' = {e \in endorsements : e.id # pk}
         /\ resp' = Response("endorsement", "destroy", tok, pk, NoData, 204, {})
         /\ UNCHANGED <<build, inflight, users, profiles, skills, projects, connections,
                        messages, counters, now, tokens>>

(* ------------------------ interleaved requests ------------------------ *)
\* A handler reads the store (get_object, is_valid) and writes it (save,
\* delete) in separate statements, and the requests of different clients
\* interleave between the two. A create is split into is_valid, which reads,
\* and perform_create, whose INSERT the store checks against its foreign
\* keys and unique constraints: a breach raises IntegrityError, which no
\* handler catches (500). A Profile's destroy is split into the collection
\* of the rows to delete and the transaction that deletes them.
Idle(c) == \A r \in inflight : r.client # c

Pending(c, ent, op) == {r \in inflight : r.client = c /\ r.ent = ent /\ r.op = op}

Admit(c, ent, op, tok, pk, data, collected) ==
    /\ inflight' = inflight \cup {[ent |-> ent, op |-> op, tok |-> tok, pk |-> pk,
                                   data |-> data, client |-> c,
                                   collected |-> collected]}
    /\ UNCHANGED <<build, users, store, counters, now, tokens, resp>>

\* The INSERT was refused by the store.
IntegrityError(r) ==
    /\ resp' = Response(r.ent, r.op, r.tok, r.pk, r.data, 500, {})
    /\ UNCHANGED <<build, users, store, counters, now, tokens>>

SkillViewSet_create_is_valid(c, tok, data) ==
    /\ Idle(c)
    /\ IF ~IsAuthenticated(tok)
       THEN Reply(Response("skill", "create", tok, NullId, data, 401, {}))
       ELSE IF SkillSerializer_errors(data, FALSE) # {}
       THEN Reply(Response("skill", "create", tok, NullId, data, 400, {}))
       ELSE nextSkill <= MaxSkills /\ Admit(c, "skill", "create", tok, NullId, data, {})

\* SkillViewSet_perform_create on a store that does not check foreign keys.
SkillViewSet_perform_create_unchecked(c) ==
    \E r \in Pending(c, "skill", "create") :
        LET row == [id |-> nextSkill, profile |-> r.data.profile,
                    skill_name |-> r.data.skill_name,
                    proficiency |-> r.data.proficiency, created_at |-> now]
        IN /\ inflight' = inflight \ {r}
           /\ nextSkill <= MaxSkills
           /\ skills' = skills \cup {row}
           /\ nextSkill' = nextSkill + 1
           /\ resp' = Response("skill", "create", r.tok, NullId, r.data, 201, {row})
           /\ UNCHANGED <<build, users, profiles, projects, connections, messages,
                          endorsements, nextProject, nextConnection, nextMessage,
                          nextEndorsement, now, tokens>>

SkillViewSet_perform_create(c) ==
    \E r \in Pending(c, "skill", "create") :
        /\ inflight' = inflight \ {r}
        /\ IF r.data.profile \notin Ids(profiles)
           THEN IntegrityError(r)
           ELSE LET row == [id |-> nextSkill, profile |-> r.data.profile,
                            skill_name |-> r.data.skill_name,
                            proficiency |-> r.data.proficiency, created_at |-> now]
                IN /\ nextSkill <= MaxSkills
                   /\ skills' = skills \cup {row}
                   /\ nextSkill' = nextSkill + 1
                   /\ resp' = Response("skill", "create", r.tok, NullId, r.data, 201, {row})
                   /\ UNCHANGED <<build, users, profiles, projects, connections, messages,
                                  endorsements, nextProject, nextConnection, nextMessage,
                                  nextEndorsement, now, tokens>>

ProjectViewSet_create_is_valid(c, tok, data) ==
    /\ Idle(c)
    /\ IF ~IsAuthenticated(tok)
       THEN Reply(Response("project", "create", tok, NullId, data, 401, {}))
       ELSE IF ProjectSerializer_errors(data, FALSE) # {}
       THEN Reply(Response("project", "create", tok, NullId, data, 400, {}))
       ELSE nextProject <= MaxProjects /\ Admit(c, "project", "create", tok, NullId, data, {})

ProjectViewSet_perform_create(c) ==
    \E r \in Pending(c, "project", "create") :
        /\ inflight' = inflight \ {r}
        /\ IF r.data.profile \notin Ids(profiles)
           THEN IntegrityError(r)
           ELSE LET row == [id |-> nextProject, profile |-> r.data.profile,
                            title |-> r.data.title, created_at |-> now, updated_at |-> now]
                IN /\ nextProject <= MaxProjects
                   /\ projects' = projects \cup {row}
                   /\ nextProject' = nextProject + 1
                   /\ resp' = Response("project", "create", r.tok, NullId, r.data, 201, {row})
                   /\ UNCHANGED <<build, users, profiles, skills, connections, messages,
                                  endorsements, nextSkill, nextConnection, nextMessage,
                                  nextEndorsement, now, tokens>>

ConnectionViewSet_create_is_valid(c, tok, data) ==
    /\ Idle(c)
    /\ IF ~IsAuthenticated(tok)
       THEN Reply(Response("connection", "create", tok, NullId, data, 401, {}))
       ELSE IF ConnectionSerializer_errors(data, FALSE, NullId) # {}
       THEN Reply(Response("connection", "create", tok, NullId, data, 400, {}))
       ELSE /\ nextConnection <= MaxConnections
            /\ Admit(c, "connection", "create", tok, NullId, data, {})

ConnectionViewSet_perform_create(c) ==
    \E r \in Pending(c, "connection", "create") :
        /\ inflight' = inflight \ {r}
        /\ IF \/ {r.data.follower, r.data.following} \ Ids(profiles) # {}
              \/ Connection_taken(r.data.follower, r.data.following, NullId)
           THEN IntegrityError(r)
           ELSE LET row == [id |-> nextConnection, follower |-> r.data.follower,
                            following |-> r.data.following,
                            status |-> IF r.data.status = Absent THEN "connected"
                                       ELSE r.data.status,
                            created_at |-> now]
                IN /\ nextConnection <= MaxConnections
                   /\ connections' = connections \cup {row}
                   /\ nextConnection' = nextConnection + 1
                   /\ resp' = Response("connection", "create", r.tok, NullId, r.data,
                                       201, {row})
                   /\ UNCHANGED <<build, users, profiles, skills, projects, messages,
                                  endorsements, nextSkill, nextProject, nextMessage,
                                  nextEndorsement, now, tokens>>

MessageViewSet_create_is_valid(c, tok, data) ==
    /\ Idle(c)
    /\ IF ~IsAuthenticated(tok)
       THEN Reply(Response("message", "create", tok, NullId, data, 401, {}))
       ELSE IF MessageSerializer_errors(data, FALSE) # {}
       THEN Reply(Response("message", "create", tok, NullId, data, 400, {}))
       ELSE nextMessage <= MaxMessages /\ Admit(c, "message", "create", tok, NullId, data, {})

MessageViewSet_perform_create(c) ==
    \E r \in Pending(c, "message", "create") :
        /\ inflight' = inflight \ {r}
        /\ IF {r.data.sender, r.data.receiver} \ Ids(profiles) # {}
           THEN IntegrityError(r)
           ELSE LET row == [id |-> nextMessage, sender |-> r.data.sender,
                            receiver |-> r.data.receiver, content |-> r.data.content,
                            read |-> FALSE, created_at |-> now]
                IN /\ nextMessage <= MaxMessages
                   /\ messages' = messages \cup {row}
                   /\ nextMessage' = nextMessage + 1
                   /\ resp' = Response("message", "create", r.tok, NullId, r.data, 201, {row})
                   /\ UNCHANGED <<build, users, profiles, skills, projects, connections,
                                  endorsements, nextSkill, nextProject, nextConnection,
                                  nextEndorsement, now, tokens>>

EndorsementViewSet_create_is_valid(c, tok, data) ==
    /\ Idle(c)
    /\ IF ~IsAuthenticated(tok)
       THEN Reply(Response("endorsement", "create", tok, NullId, data, 401, {}))
       ELSE IF EndorsementSerializer_errors(data, FALSE, NullId) # {}
       THEN Reply(Response("endorsement", "create", tok, NullId, data, 400, {}))
       ELSE /\ nextEndorsement <= MaxEndorsements
            /\ Admit(c, "endorsement", "create", tok, NullId, data, {})

EndorsementViewSet_perform_create(c) ==
    \E r \in Pending(c, "endorsement", "create") :
        /\ inflight' = inflight \ {r}
        /\ IF \/ {r.data.endorser, r.data.endorsee} \ Ids(profiles) # {}
              \/ r.data.skill \notin Ids(skills)
              \/ Endorsement_taken(r.data.endorser, r.data.endorsee, r.data.skill, NullId)
           THEN IntegrityError(r)
           ELSE LET row == [id |-> nextEndorsement, endorser |-> r.data.endorser,
                            endorsee |-> r.data.endorsee, skill |-> r.data.skill,
                            created_at |-> now]
                IN /\ nextEndorsement <= MaxEndorsements
                   /\ endorsements' = endorsements \cup {row}
                   /\ nextEndorsement' = nextEndorsement + 1
                   /\ resp' = Response("endorsement", "create", r.tok, NullId, r.data,
                                       201, {row})
                   /\ UNCHANGED <<build, users, profiles, skills, projects, connections,
                                  messages, nextSkill, nextProject, nextConnection,
                                  nextMessage, now, tokens>>

\* get_object and Collector.collect: the profile's skills are read now
\* (they have endorsements to cascade to); the rows of the other tables are
\* deleted by query when the transaction runs.
ProfileViewSet_destroy_collect(c, tok, pk) ==
    /\ Idle(c)
    /\ IF ~IsAuthenticated(tok)
       THEN Reply(Response("profile", "destroy", tok, pk, NoData, 401, {}))
       ELSE IF pk \notin Ids(profiles)
       THEN Reply(Response("profile", "destroy", tok, pk, NoData, 404, {}))
       ELSE Admit(c, "profile", "destroy", tok, pk, NoData,
                  {k.id : k \in {k \in skills : k.profile = pk}})

\* Collector.delete, one transaction: the endorsements of the collected
\* skills, the collected skills, the rows of the other tables that name the
\* profile, then the profile. A skill of the profile that was not collected
\* breaks its foreign key: the transaction is rolled back.
ProfileViewSet_perform_destroy(c) ==
    \E r \in Pending(c, "profile", "destroy") :
        /\ inflight' = inflight \ {r}
        /\ IF \E k \in skills : k.profile = r.pk /\ k.id \notin r.collected
           THEN IntegrityError(r)
           ELSE /\ profiles' = {p \in profiles : p.id # r.pk}
                /\ skills' = {k \in skills : k.id \notin r.collected}
                /\ projects' = {p \in projects : p.profile # r.pk}
                /\ connections' = {x \in connections :
                                        x.follower # r.pk /\ x.following # r.pk}
                /\ messages' = {m \in messages : m.sender # r.pk /\ m.receiver # r.pk}
                /\ endorsements' = {e \in endorsements :
                                        /\ e.skill \notin r.collected
                                        /\ e.endorser # r.pk /\ e.endorsee # r.pk}
                /\ resp' = Response("profile", "destroy", r.tok, r.pk, NoData, 204, {})
                /\ UNCHANGED <<build, users, counters, now, tokens>>

(* ------------------------------- tokens ------------------------------- *)
\* POST api/token/: a username of an account with its password gives a new
\* access token and a new refresh token; anything else gives 401 and none.
TokenObtainPairViewWithDocs_post(username, password_ok) ==
    LET data == [username |-> username, password_ok |-> password_ok] IN
    IF ~(username \in users /\ password_ok)
    THEN Reply(Response("token", "obtain", NoToken, NullId, data, 401, {}))
    ELSE /\ nextToken + 1 <= MaxTokens
         /\ access' = access \cup {nextToken}
         /\ refresh' = refresh \cup {nextToken + 1}
         /\ nextToken' = nextToken + 2
         /\ resp' = Response("token", "obtain", NoToken, NullId, data, 200,
                             {[access |-> nextToken, refresh |-> nextToken + 1]})
         /\ UNCHANGED <<build, inflight, users, store, counters, now>>

\* TokenRefreshViewWithDocs_post that does not look at the token's type.
TokenRefreshViewWithDocs_post_any_type(token) ==
    LET data == [refresh |-> token] IN
    IF token \notin access \cup refresh
    THEN Reply(Response("token", "refresh", NoToken, NullId, data, 401, {}))
    ELSE /\ nextToken <= MaxTokens
         /\ access' = access \cup {nextToken}
         /\ nextToken' = nextToken + 1
         /\ resp' = Response("token", "refresh", NoToken, NullId, data, 200,
                             {[access |-> nextToken, refresh |-> NoToken]})
         /\ UNCHANGED <<build, inflight, users, store, counters, now, refresh>>

\* POST api/token/refresh/: a refresh token that was issued and has not
\* expired gives a new access token; anything else gives 401.
TokenRefreshViewWithDocs_post(token) ==
    LET data == [refresh |-> token] IN
    IF token \notin refresh
    THEN Reply(Response("token", "refresh", NoToken, NullId, data, 401, {}))
    ELSE /\ nextToken <= MaxTokens
         /\ access' = access \cup {nextToken}
         /\ nextToken' = nextToken + 1
         /\ resp' = Response("token", "refresh", NoToken, NullId, data, 200,
                             {[access |-> nextToken, refresh |-> NoToken]})
         /\ UNCHANGED <<build, inflight, users, store, counters, now, refresh>>

\* A token reaches the end of its lifetime.
TokenExpire(token) ==
    /\ token \in access \cup refresh
    /\ access' = access \ {token}
    /\ refresh' = refresh \ {token}
    /\ UNCHANGED <<build, inflight, users, store, counters, now, nextToken, resp>>

(* -------------------------------- clock ------------------------------- *)
Tick ==
    /\ now < MaxClock
    /\ now' = now + 1
    /\ UNCHANGED <<build, inflight, users, store, counters, tokens, resp>>

(* ------------------------------ requests ------------------------------ *)
\* The requests on one collection, with bearer tokens from B and payloads
\* from D.
ProfileRequests(B, D) ==
    \E tok \in B :
        \/ ProfileViewSet_list(tok)
        \/ \E pk \in ProfileIds : ProfileViewSet_retrieve(tok, pk)
        \/ \E data \in D : ProfileViewSet_create(tok, data)
        \/ \E pk \in ProfileIds, data \in D : ProfileViewSet_update(tok, pk, data, FALSE)
        \/ \E pk \in ProfileIds, data \in D : ProfileViewSet_partial_update(tok, pk, data)
        \/ \E pk \in ProfileIds : ProfileViewSet_destroy(tok, pk)

SkillRequests(B, D) ==
    \E tok \in B :
        \/ SkillViewSet_list(tok)
        \/ \E pk \in SkillIds : SkillViewSet_retrieve(tok, pk)
        \/ \E data \in D : SkillViewSet_create(tok, data)
        \/ \E pk \in SkillIds, data \in D : SkillViewSet_update(tok, pk, data, FALSE)
        \/ \E pk \in SkillIds, data \in D : SkillViewSet_partial_update(tok, pk, data)
        \/ \E pk \in SkillIds : SkillViewSet_destroy(tok, pk)

ProjectRequests(B, D) ==
    \E tok \in B :
        \/ ProjectViewSet_list(tok)
        \/ \E pk \in ProjectIds : ProjectViewSet_retrieve(tok, pk)
        \/ \E data \in D : ProjectViewSet_create(tok, data)
        \/ \E pk \in ProjectIds, data \in D : ProjectViewSet_update(tok, pk, data, FALSE)
        \/ \E pk \in ProjectIds, data \in D : ProjectViewSet_partial_update(tok, pk, data)
        \/ \E pk \in ProjectIds : ProjectViewSet_destroy(tok, pk)

ConnectionRequests(B, D) ==
    \E tok \in B :
        \/ ConnectionViewSet_list(tok)
        \/ \E pk \in ConnectionIds : ConnectionViewSet_retrieve(tok, pk)
        \/ \E data \in D : ConnectionViewSet_create(tok, data)
        \/ \E pk \in ConnectionIds, data \in D : ConnectionViewSet_update(tok, pk, data, FALSE)
        \/ \E pk \in ConnectionIds, data \in D : ConnectionViewSet_partial_update(tok, pk, data)
        \/ \E pk \in ConnectionIds : ConnectionViewSet_destroy(tok, pk)

MessageRequests(B, D) ==
    \E tok \in B :
        \/ MessageViewSet_list(tok)
        \/ \E pk \in MessageIds : MessageViewSet_retrieve(tok, pk)
        \/ \E data \in D : MessageViewSet_create(tok, data)
        \/ \E pk \in MessageIds, data \in D : MessageViewSet_update(tok, pk, data, FALSE)
        \/ \E pk \in MessageIds, data \in D : MessageViewSet_partial_update(tok, pk, data)
        \/ \E pk \in MessageIds : MessageViewSet_destroy(tok, pk)

EndorsementRequests(B, D) ==
    \E tok \in B :
        \/ EndorsementViewSet_list(tok)
        \/ \E pk \in EndorsementIds : EndorsementViewSet_retrieve(tok, pk)
        \/ \E data \in D : EndorsementViewSet_create(tok, data)
        \/ \E pk \in EndorsementIds, data \in D : EndorsementViewSet_update(tok, pk, data, FALSE)
        \/ \E pk \in EndorsementIds, data \in D :
                EndorsementViewSet_partial_update(tok, pk, data)
        \/ \E pk \in EndorsementIds : EndorsementViewSet_destroy(tok, pk)

TokenRequests ==
    \/ \E u \in Accounts, ok \in BOOLEAN : TokenObtainPairViewWithDocs_post(u, ok)
    \/ \E t \in Tokens : TokenRefreshViewWithDocs_post(t)
    \/ \E t \in Tokens : TokenExpire(t)

(* ---------------------------- specification --------------------------- *)
EmptyStore ==
    /\ profiles = {} /\ skills = {} /\ projects = {}
    /\ connections = {} /\ messages = {} /\ endorsements = {}

FreshCounters ==
    /\ nextSkill = 1 /\ nextProject = 1 /\ nextConnection = 1
    /\ nextMessage = 1 /\ nextEndorsement = 1

NoRequestYet == resp = Response("none", "none", NoToken, NullId, NoData, 0, {})

Init ==
    /\ backend \in {"strict", "rowid"}
    /\ atomic_requests \in BOOLEAN
    /\ users \in SUBSET Accounts
    /\ EmptyStore /\ FreshCounters
    /\ now = 0
    /\ access = {} /\ refresh = {} /\ nextToken = 1
    /\ inflight = {}
    /\ NoRequestYet

Next ==
    \/ ProfileRequests(Bearers, ProfileData)
    \/ SkillRequests(Bearers, SkillData)
    \/ ProjectRequests(Bearers, ProjectData)
    \/ ConnectionRequests(Bearers, ConnectionData)
    \/ MessageRequests(Bearers, MessageData)
    \/ EndorsementRequests(Bearers, EndorsementData)
    \/ TokenRequests
    \/ Tick

Spec == Init /\ [][Next]_vars

(* ------------------------- scoped specifications ---------------------- *)
\* The system once a client has obtained its token pair: access token 1 and
\* refresh token 2 are out.
Bearer == 1

SessionOpen ==
    /\ backend \in {"strict", "rowid"}
    /\ users \in SUBSET Accounts /\ users # {}
    /\ EmptyStore
    /\ now = 0
    /\ access = {Bearer} /\ refresh = {Bearer + 1} /\ nextToken = Bearer + 2
    /\ inflight = {}
    /\ NoRequestYet

\* No handler of these scopes renders a saved Profile after a write, so
\* the transaction setting is left at the framework's default.
InitSession == SessionOpen /\ FreshCounters /\ atomic_requests = FALSE

\* Profiles come and go.
Jane == [id |-> NullId, email |-> "dev@example.com", full_name |-> "Jane"]

ProfileTurnover ==
    \/ ProfileViewSet_create(Bearer, Jane)
    \/ \E pk \in ProfileIds : ProfileViewSet_destroy(Bearer, pk)

\* Connections between the profiles.
NextConnections ==
    \/ ProfileTurnover
    \/ ConnectionRequests({Bearer}, ConnectionData)

SpecConnections == InitSession /\ [][NextConnections]_vars

\* Skills come and go.
Python(profile) ==
    [profile |-> profile, skill_name |-> "Python", proficiency |-> "expert"]

SkillTurnover ==
    \/ \E p \in ProfileIds : SkillViewSet_create(Bearer, Python(p))
    \/ \E pk \in SkillIds : SkillViewSet_destroy(Bearer, pk)

\* Endorsements between the profiles, for their skills.
NextEndorsements ==
    \/ ProfileTurnover
    \/ SkillTurnover
    \/ EndorsementRequests({Bearer}, EndorsementData)

SpecEndorsements == InitSession /\ [][NextEndorsements]_vars

\* Every table filled from the profiles, and profiles deleted under them.
NextCascade ==
    \/ ProfileTurnover
    \/ \E p \in ProfileIds : SkillViewSet_create(Bearer, Python(p))
    \/ \E p \in ProfileIds :
            ProjectViewSet_create(Bearer, [profile |-> p, title |-> "Blitz"])
    \/ \E p, q \in ProfileIds :
            ConnectionViewSet_create(Bearer,
                [follower |-> p, following |-> q, status |-> Absent])
    \/ \E p, q \in ProfileIds :
            MessageViewSet_create(Bearer,
                [sender |-> p, receiver |-> q, content |-> "hello", read |-> FALSE])
    \/ \E p, q \in ProfileIds, k \in SkillIds :
            EndorsementViewSet_create(Bearer, [endorser |-> p, endorsee |-> q, skill |-> k])

\* Earlier rows have come and gone: each table has one unused id left.
LastIds ==
    /\ nextSkill = MaxSkills /\ nextProject = MaxProjects
    /\ nextConnection = MaxConnections /\ nextMessage = MaxMessages
    /\ nextEndorsement = MaxEndorsements

InitCascade == SessionOpen /\ LastIds /\ atomic_requests = FALSE

SpecCascade == InitCascade /\ [][NextCascade]_vars

\* Writes whose references are any profile or skill id, or none, on one
\* table at a time (endorsements with their skills): the other tables have
\* used their ids up.
Tables == {"skill", "project", "connection", "message", "endorsement"}

InitIntegrity ==
    /\ SessionOpen /\ atomic_requests = FALSE
    /\ \E t \in Tables :
        /\ nextSkill = IF t \in {"skill", "endorsement"} THEN MaxSkills ELSE MaxSkills + 1
        /\ nextProject = IF t = "project" THEN MaxProjects ELSE MaxProjects + 1
        /\ nextConnection = IF t = "connection" THEN MaxConnections ELSE MaxConnections + 1
        /\ nextMessage = IF t = "message" THEN MaxMessages ELSE MaxMessages + 1
        /\ nextEndorsement = IF t = "endorsement" THEN MaxEndorsements
                             ELSE MaxEndorsements + 1

Refs == ProfileIds \cup {NullId}

NextIntegrity ==
    \/ ProfileTurnover
    \/ \E data \in [profile : Refs, skill_name : {"Python"}, proficiency : {"expert"}] :
        \/ SkillViewSet_create(Bearer, data)
        \/ \E pk \in SkillIds : SkillViewSet_update(Bearer, pk, data, FALSE)
        \/ \E pk \in SkillIds : SkillViewSet_partial_update(Bearer, pk, data)
    \/ \E pk \in SkillIds : SkillViewSet_destroy(Bearer, pk)
    \/ \E data \in [profile : Refs, title : {"Blitz"}] :
        \/ ProjectViewSet_create(Bearer, data)
        \/ \E pk \in ProjectIds : ProjectViewSet_update(Bearer, pk, data, FALSE)
        \/ \E pk \in ProjectIds : ProjectViewSet_partial_update(Bearer, pk, data)
    \/ \E pk \in ProjectIds : ProjectViewSet_destroy(Bearer, pk)
    \/ \E data \in [follower : Refs, following : Refs, status : {Absent}] :
        \/ ConnectionViewSet_create(Bearer, data)
        \/ \E pk \in ConnectionIds : ConnectionViewSet_update(Bearer, pk, data, FALSE)
        \/ \E pk \in ConnectionIds : ConnectionViewSet_partial_update(Bearer, pk, data)
    \/ \E pk \in ConnectionIds : ConnectionViewSet_destroy(Bearer, pk)
    \/ \E data \in [sender : Refs, receiver : Refs, content : {"hello"}, read : {FALSE}] :
        \/ MessageViewSet_create(Bearer, data)
        \/ \E pk \in MessageIds : MessageViewSet_update(Bearer, pk, data, FALSE)
        \/ \E pk \in MessageIds : MessageViewSet_partial_update(Bearer, pk, data)
    \/ \E pk \in MessageIds : MessageViewSet_destroy(Bearer, pk)
    \/ \E data \in [endorser : Refs, endorsee : Refs, skill : SkillIds \cup {NullId}] :
        \/ EndorsementViewSet_create(Bearer, data)
        \/ \E pk \in EndorsementIds : EndorsementViewSet_update(Bearer, pk, data, FALSE)
        \/ \E pk \in EndorsementIds : EndorsementViewSet_partial_update(Bearer, pk, data)
    \/ \E pk \in EndorsementIds : EndorsementViewSet_destroy(Bearer, pk)

SpecIntegrity == InitIntegrity /\ [][NextIntegrity]_vars

\* The skills of the profiles.
NextSkills ==
    \/ ProfileTurnover
    \/ SkillRequests({Bearer}, SkillData)

SpecSkills == InitSession /\ [][NextSkills]_vars

\* The profiles alone, under either transaction setting, with the clock.
InitProfiles == SessionOpen /\ FreshCounters /\ atomic_requests \in BOOLEAN

NextProfiles ==
    \/ ProfileRequests({Bearer}, ProfileData)
    \/ Tick

SpecProfiles == InitProfiles /\ [][NextProfiles]_vars

Blitz == [profile |-> 1, title |-> "Blitz"]

\* Requests with and without a valid bearer token on every collection, one
\* table filled at a time, while the access token runs out: no token, the
\* access token, the refresh token in its place, a token never issued.
NextAuth ==
    \/ ProfileRequests(Bearers, {Jane})
    \/ SkillRequests(Bearers, {Python(1)})
    \/ ProjectRequests(Bearers, {Blitz})
    \/ ConnectionRequests(Bearers, {[follower |-> 1, following |-> 1, status |-> Absent]})
    \/ MessageRequests(Bearers,
            {[sender |-> 1, receiver |-> 1, content |-> "hello", read |-> FALSE]})
    \/ EndorsementRequests(Bearers, {[endorser |-> 1, endorsee |-> 1, skill |-> 1]})
    \/ TokenExpire(Bearer)

SpecAuth == InitIntegrity /\ [][NextAuth]_vars

\* Tokens obtained, refreshed and run out from the start, and used on the
\* projects: a profile and a project written, the projects read.
NextTokens ==
    \/ TokenRequests
    \/ \E tok \in Bearers :
        \/ ProfileViewSet_create(tok, Jane)
        \/ ProjectViewSet_create(tok, Blitz)
        \/ ProjectViewSet_list(tok)
        \/ \E pk \in ProjectIds : ProjectViewSet_retrieve(tok, pk)

SpecTokens == Init /\ [][NextTokens]_vars

\* Writes with sound and unsound payloads on every collection, one table
\* filled at a time: references to any profile or skill id or none, text
\* fields given or not, choices inside and outside their lists.
NextWrites ==
    \/ ProfileRequests({Bearer},
            [id : {NullId}, email : {"dev@example.com", "not-an-email"},
             full_name : {"Jane"}])
    \/ SkillRequests({Bearer},
            [profile : Refs, skill_name : {"Python", Absent},
             proficiency : {"expert", "guru"}])
    \/ ProjectRequests({Bearer}, [profile : Refs, title : {"Blitz", Absent}])
    \/ ConnectionRequests({Bearer},
            [follower : Refs, following : Refs, status : {Absent, "blocked"}])
    \/ MessageRequests({Bearer},
            [sender : Refs, receiver : Refs, content : {"hello", Absent},
             read : {FALSE}])
    \/ EndorsementRequests({Bearer},
            [endorser : Refs, endorsee : Refs, skill : SkillIds \cup {NullId}])

SpecWrites == InitIntegrity /\ [][NextWrites]_vars

\* Creates whose payloads give an id and timestamps of their own, rows
\* deleted, and the clock: one table filled from its first id at a time
\* (the endorsements with the skills).
Stale == MaxClock + 1

InitCreates ==
    /\ SessionOpen /\ atomic_requests = FALSE
    /\ \E t \in Tables :
        /\ nextSkill = IF t \in {"skill", "endorsement"} THEN 1 ELSE MaxSkills + 1
        /\ nextProject = IF t = "project" THEN 1 ELSE MaxProjects + 1
        /\ nextConnection = IF t = "connection" THEN 1 ELSE MaxConnections + 1
        /\ nextMessage = IF t = "message" THEN 1 ELSE MaxMessages + 1
        /\ nextEndorsement = IF t = "endorsement" THEN 1 ELSE MaxEndorsements + 1

NextCreates ==
    \/ \E data \in [id : ProfileIds, email : {"dev@example.com"}, full_name : {"Jane"},
                    created_at : {Stale}, updated_at : {Stale}] :
            ProfileViewSet_create(Bearer, data)
    \/ \E pk \in ProfileIds : ProfileViewSet_destroy(Bearer, pk)
    \/ \E data \in [id : SkillIds, profile : ProfileIds, skill_name : {"Python"},
                    proficiency : {"expert"}, created_at : {Stale}] :
            SkillViewSet_create(Bearer, data)
    \/ \E pk \in SkillIds : SkillViewSet_destroy(Bearer, pk)
    \/ \E data \in [id : ProjectIds, profile : ProfileIds, title : {"Blitz"},
                    created_at : {Stale}, updated_at : {Stale}] :
            ProjectViewSet_create(Bearer, data)
    \/ \E pk \in ProjectIds : ProjectViewSet_destroy(Bearer, pk)
    \/ \E data \in [id : ConnectionIds, follower : ProfileIds, following : ProfileIds,
                    status : {Absent}, created_at : {Stale}] :
            ConnectionViewSet_create(Bearer, data)
    \/ \E pk \in ConnectionIds : ConnectionViewSet_destroy(Bearer, pk)
    \/ \E data \in [id : MessageIds, sender : ProfileIds, receiver : ProfileIds,
                    content : {"hello"}, read : {FALSE}, created_at : {Stale}] :
            MessageViewSet_create(Bearer, data)
    \/ \E pk \in MessageIds : MessageViewSet_destroy(Bearer, pk)
    \/ \E data \in [id : EndorsementIds, endorser : ProfileIds, endorsee : ProfileIds,
                    skill : SkillIds, created_at : {Stale}] :
            EndorsementViewSet_create(Bearer, data)
    \/ \E pk \in EndorsementIds : EndorsementViewSet_destroy(Bearer, pk)
    \/ Tick

SpecCreates == InitCreates /\ [][NextCreates]_vars

\* Messages between the profiles.
NextMessages ==
    \/ ProfileTurnover
    \/ MessageRequests({Bearer}, MessageData)

SpecMessages == InitSession /\ [][NextMessages]_vars

\* Two clients whose creates and profile deletes interleave between their
\* reads and their writes, one table filled at a time.
NextRaces ==
    \/ ProfileViewSet_create(Bearer, Jane)
    \/ \E c \in Clients :
        \/ \E p \in ProfileIds : SkillViewSet_create_is_valid(c, Bearer, Python(p))
        \/ SkillViewSet_perform_create(c)
        \/ \E p \in ProfileIds :
                ProjectViewSet_create_is_valid(c, Bearer, [profile |-> p, title |-> "Blitz"])
        \/ ProjectViewSet_perform_create(c)
        \/ \E p, q \in ProfileIds :
                ConnectionViewSet_create_is_valid(c, Bearer,
                    [follower |-> p, following |-> q, status |-> Absent])
        \/ ConnectionViewSet_perform_create(c)
        \/ \E p, q \in ProfileIds :
                MessageViewSet_create_is_valid(c, Bearer,
                    [sender |-> p, receiver |-> q, content |-> "hello", read |-> FALSE])
        \/ MessageViewSet_perform_create(c)
        \/ \E p, q \in ProfileIds, k \in SkillIds :
                EndorsementViewSet_create_is_valid(c, Bearer,
                    [endorser |-> p, endorsee |-> q, skill |-> k])
        \/ EndorsementViewSet_perform_create(c)
        \/ \E pk \in ProfileIds : ProfileViewSet_destroy_collect(c, Bearer, pk)
        \/ ProfileViewSet_perform_destroy(c)

SpecRaces == InitCreates /\ [][NextRaces]_vars

\* Sound creates, an update per collection that changes what is stored,
\* and deletes, one table filled from its first id at a time (the
\* endorsements with the skills). The last profile is the one the updates
\* move the rows to.
Last == MaxAccounts

NextFrames ==
    \/ ProfileTurnover
    \/ SkillTurnover
    \/ \E pk \in SkillIds, partial \in BOOLEAN :
            SkillViewSet_update(Bearer, pk, [Python(Last) EXCEPT !.skill_name = "Go"],
                                partial)
    \/ \E p \in ProfileIds :
            ProjectViewSet_create(Bearer, [profile |-> p, title |-> "Blitz"])
    \/ \E pk \in ProjectIds, partial \in BOOLEAN :
            ProjectViewSet_update(Bearer, pk, [profile |-> Last, title |-> "Blitz 2"],
                                  partial)
    \/ \E pk \in ProjectIds : ProjectViewSet_destroy(Bearer, pk)
    \/ \E p, q \in ProfileIds :
            ConnectionViewSet_create(Bearer,
                [follower |-> p, following |-> q, status |-> Absent])
    \/ \E pk \in ConnectionIds, partial \in BOOLEAN :
            ConnectionViewSet_update(Bearer, pk,
                [follower |-> Last, following |-> 1, status |-> "pending"], partial)
    \/ \E pk \in ConnectionIds : ConnectionViewSet_destroy(Bearer, pk)
    \/ \E p, q \in ProfileIds :
            MessageViewSet_create(Bearer,
                [sender |-> p, receiver |-> q, content |-> "hello", read |-> FALSE])
    \/ \E pk \in MessageIds, partial \in BOOLEAN :
            MessageViewSet_update(Bearer, pk,
                [sender |-> Last, receiver |-> 1, content |-> "bye", read |-> FALSE],
                partial)
    \/ \E pk \in MessageIds : MessageViewSet_destroy(Bearer, pk)
    \/ \E p, q \in ProfileIds, k \in SkillIds :
            EndorsementViewSet_create(Bearer, [endorser |-> p, endorsee |-> q, skill |-> k])
    \/ \E pk \in EndorsementIds, partial \in BOOLEAN :
            EndorsementViewSet_update(Bearer, pk,
                [endorser |-> Last, endorsee |-> 1, skill |-> MaxSkills], partial)
    \/ \E pk \in EndorsementIds : EndorsementViewSet_destroy(Bearer, pk)

SpecFrames == InitCreates /\ [][NextFrames]_vars

\* Rows created, then updated in full and in part by payloads that give an
\* id and timestamps of their own, with the clock moving: one table at a
\* time, each with its last id (the endorsements with the last skill).
\* A payload names every writable field, leaves a required one out, or
\* names one field only.
ProfileUpdates ==
    \E pk \in ProfileIds, partial \in BOOLEAN,
       data \in [id : {MaxAccounts + 1}, email : {Absent}, full_name : {Absent, "Jane"},
                 created_at : {Stale}, updated_at : {Stale}] :
        ProfileViewSet_update(Bearer, pk, data, partial)

SkillUpdates ==
    \E pk \in SkillIds, partial \in BOOLEAN,
       f \in {<<Last, "Go", "beginner">>, <<Last, Absent, "beginner">>,
              <<NullId, "Go", Absent>>} :
        SkillViewSet_update(Bearer, pk,
            [id |-> MaxSkills + 1, profile |-> f[1], skill_name |-> f[2],
             proficiency |-> f[3], created_at |-> Stale], partial)

ProjectUpdates ==
    \E pk \in ProjectIds, partial \in BOOLEAN,
       f \in {<<Last, "Blitz 2">>, <<Last, Absent>>, <<NullId, "Blitz 2">>} :
        ProjectViewSet_update(Bearer, pk,
            [id |-> MaxProjects + 1, profile |-> f[1], title |-> f[2],
             created_at |-> Stale, updated_at |-> Stale], partial)

ConnectionUpdates ==
    \E pk \in ConnectionIds, partial \in BOOLEAN,
       f \in {<<Last, 1, "pending">>, <<NullId, 1, "pending">>,
              <<NullId, NullId, "pending">>} :
        ConnectionViewSet_update(Bearer, pk,
            [id |-> MaxConnections + 1, follower |-> f[1], following |-> f[2],
             status |-> f[3], created_at |-> Stale], partial)

MessageUpdates ==
    \E pk \in MessageIds, partial \in BOOLEAN,
       f \in {<<Last, 1, "bye">>, <<Last, 1, Absent>>, <<NullId, NullId, "bye">>} :
        MessageViewSet_update(Bearer, pk,
            [id |-> MaxMessages + 1, sender |-> f[1], receiver |-> f[2],
             content |-> f[3], read |-> TRUE, created_at |-> Stale], partial)

EndorsementUpdates ==
    \E pk \in EndorsementIds, partial \in BOOLEAN,
       f \in {<<Last, 1, MaxSkills>>, <<Last, 1, NullId>>, <<Last, NullId, NullId>>} :
        EndorsementViewSet_update(Bearer, pk,
            [id |-> MaxEndorsements + 1, endorser |-> f[1], endorsee |-> f[2],
             skill |-> f[3], created_at |-> Stale], partial)

NextUpdates ==
    \/ ProfileTurnover
    \/ \E pk \in ProfileIds : ProfileViewSet_retrieve(Bearer, pk)
    \/ ProfileUpdates
    \/ SkillViewSet_create(Bearer, Python(1))
    \/ \E pk \in SkillIds : SkillViewSet_retrieve(Bearer, pk)
    \/ SkillUpdates
    \/ \E pk \in SkillIds : SkillViewSet_destroy(Bearer, pk)
    \/ ProjectViewSet_create(Bearer, Blitz)
    \/ \E pk \in ProjectIds : ProjectViewSet_retrieve(Bearer, pk)
    \/ ProjectUpdates
    \/ \E pk \in ProjectIds : ProjectViewSet_destroy(Bearer, pk)
    \/ ConnectionViewSet_create(Bearer,
            [follower |-> 1, following |-> Last, status |-> Absent])
    \/ \E pk \in ConnectionIds : ConnectionViewSet_retrieve(Bearer, pk)
    \/ ConnectionUpdates
    \/ \E pk \in ConnectionIds : ConnectionViewSet_destroy(Bearer, pk)
    \/ MessageViewSet_create(Bearer,
            [sender |-> 1, receiver |-> Last, content |-> "hello", read |-> FALSE])
    \/ \E pk \in MessageIds : MessageViewSet_retrieve(Bearer, pk)
    \/ MessageUpdates
    \/ \E pk \in MessageIds : MessageViewSet_destroy(Bearer, pk)
    \/ EndorsementViewSet_create(Bearer,
            [endorser |-> 1, endorsee |-> Last, skill |-> MaxSkills])
    \/ \E pk \in EndorsementIds : EndorsementViewSet_retrieve(Bearer, pk)
    \/ EndorsementUpdates
    \/ \E pk \in EndorsementIds : EndorsementViewSet_destroy(Bearer, pk)
    \/ Tick

SpecUpdates == InitIntegrity /\ [][NextUpdates]_vars

(* ------------------------------- claims ------------------------------- *)
\* The step handles a request op on collection ent (the clock and the
\* tokens stand still in such a step).
Request(ent, op) ==
    /\ resp'.ent = ent /\ resp'.op = op
    /\ now' = now /\ access' = access /\ refresh' = refresh

ConnectionPairsUnique ==
    \A c, d \in connections :
        (c.follower = d.follower /\ c.following = d.following) => c = d

\* C1: after every request no two stored connections have the same
\* (follower, following) pair, and a create whose pair is already stored
\* is answered 400 and leaves the connections as they were.
C1_ConnectionPairUnique ==
    [][/\ ConnectionPairsUnique'
       /\ (/\ Request("connection", "create") /\ resp'.tok \in access
           /\ \E c \in connections : /\ c.follower = resp'.data.follower
                                     /\ c.following = resp'.data.following)
          => (resp'.status = 400 /\ connections' = connections)]_vars

C1_Witness ==
    /\ resp.ent = "connection" /\ resp.op = "create" /\ resp.status = 400
    /\ Cardinality(connections) = 2
    /\ \E c \in connections : /\ c.follower = resp.data.follower
                              /\ c.following = resp.data.following

\* C2: with (A, B) stored for two distinct profiles A and B, a create of
\* (B, A), not itself stored yet, is answered 201 and both rows are stored
\* afterwards.
C2_ReversePairPermitted ==
    [][(/\ Request("connection", "create") /\ resp'.tok \in access
        /\ resp'.data.follower \in Ids(profiles)
        /\ resp'.data.following \in Ids(profiles)
        /\ resp'.data.follower # resp'.data.following
        /\ resp'.data.status \in STATUS_CHOICES \cup {Absent}
        /\ \E c \in connections : /\ c.follower = resp'.data.following
                                  /\ c.following = resp'.data.follower
        /\ ~\E c \in connections : /\ c.follower = resp'.data.follower
                                   /\ c.following = resp'.data.following)
       => (/\ resp'.status = 201
           /\ \E c, d \in connections' :
                /\ c.follower = resp'.data.follower /\ c.following = resp'.data.following
                /\ d.follower = resp'.data.following /\ d.following = resp'.data.follower
                /\ d \in connections)]_vars

C2_Witness ==
    /\ resp.ent = "connection" /\ resp.op = "create" /\ resp.status = 201
    /\ \E c, d \in connections :
        /\ c \in resp.body
        /\ c.follower # c.following
        /\ d.follower = c.following /\ d.following = c.follower

EndorsementTriplesUnique ==
    \A e, f \in endorsements :
        (e.endorser = f.endorser /\ e.endorsee = f.endorsee /\ e.skill = f.skill) => e = f

\* C3: after every request no two stored endorsements have the same
\* (endorser, endorsee, skill) triple, and a create whose triple is already
\* stored is answered 400 and leaves the endorsements as they were.
C3_EndorsementTripleUnique ==
    [][/\ EndorsementTriplesUnique'
       /\ (/\ Request("endorsement", "create") /\ resp'.tok \in access
           /\ \E e \in endorsements : /\ e.endorser = resp'.data.endorser
                                      /\ e.endorsee = resp'.data.endorsee
                                      /\ e.skill = resp'.data.skill)
          => (resp'.status = 400 /\ endorsements' = endorsements)]_vars

C3_Witness ==
    /\ resp.ent = "endorsement" /\ resp.op = "create" /\ resp.status = 400
    /\ Cardinality(endorsements) = 2
    /\ \E e \in endorsements : /\ e.endorser = resp.data.endorser
                               /\ e.endorsee = resp.data.endorsee
                               /\ e.skill = resp.data.skill

\* C4: after a delete of profile P answered 204, P is gone and no skill,
\* project, connection, message or endorsement references P.
C4_ProfileDeleteCascades ==
    [][(Request("profile", "destroy") /\ resp'.status = 204)
       => (/\ resp'.pk \in Ids(profiles)
           /\ resp'.pk \notin Ids(profiles')
           /\ \A r \in skills' \cup projects' : r.profile # resp'.pk
           /\ \A c \in connections' : c.follower # resp'.pk /\ c.following # resp'.pk
           /\ \A m \in messages' : m.sender # resp'.pk /\ m.receiver # resp'.pk
           /\ \A e \in endorsements' : e.endorser # resp'.pk /\ e.endorsee # resp'.pk)]_vars

\* A profile was deleted with rows of every table written before, none of
\* which is left (in SpecCascade only a profile's delete removes rows), and
\* another profile is still there.
C4_Witness ==
    /\ resp.ent = "profile" /\ resp.op = "destroy" /\ resp.status = 204
    /\ profiles # {}
    /\ nextSkill > MaxSkills /\ nextProject > MaxProjects
    /\ nextConnection > MaxConnections /\ nextMessage > MaxMessages
    /\ nextEndorsement > MaxEndorsements
    /\ skills = {} /\ projects = {} /\ connections = {}
    /\ messages = {} /\ endorsements = {}

ReferencesExist ==
    /\ \A r \in skills \cup projects : r.profile \in Ids(profiles)
    /\ \A c \in connections : {c.follower, c.following} \subseteq Ids(profiles)
    /\ \A m \in messages : {m.sender, m.receiver} \subseteq Ids(profiles)
    /\ \A e \in endorsements :
        {e.endorser, e.endorsee} \subseteq Ids(profiles) /\ e.skill \in Ids(skills)

\* The profile ids and the skill ids a payload names.
ProfilesNamed(ent, data) ==
    CASE ent \in {"skill", "project"} -> {data.profile}
      [] ent = "connection" -> {data.follower, data.following}
      [] ent = "message" -> {data.sender, data.receiver}
      [] ent = "endorsement" -> {data.endorser, data.endorsee}
      [] OTHER -> {}

SkillsNamed(ent, data) == IF ent = "endorsement" THEN {data.skill} ELSE {}

\* C5: after every request each stored skill, project, connection, message
\* and endorsement references only stored profiles (and a stored skill), and
\* a create, update or partial_update whose payload names a profile or skill
\* id that is not stored is answered 400 (404 when the row to update is not
\* stored either) and leaves the store as it was.
C5_ReferentialIntegrity ==
    [][/\ ReferencesExist'
       /\ (/\ \E ent \in Tables, op \in {"create", "update", "partial_update"} :
                Request(ent, op)
           /\ resp'.tok \in access
           /\ \/ (ProfilesNamed(resp'.ent, resp'.data) \ {NullId}) \ Ids(profiles) # {}
              \/ (SkillsNamed(resp'.ent, resp'.data) \ {NullId}) \ Ids(skills) # {})
          => (resp'.status \in {400, 404} /\ store' = store)]_vars

\* An update of a stored endorsement to a skill that is not stored was
\* refused.
C5_Witness ==
    /\ resp.ent = "endorsement" /\ resp.op = "update" /\ resp.status = 400
    /\ resp.pk \in Ids(endorsements)
    /\ resp.data.skill # NullId /\ resp.data.skill \notin Ids(skills)
    /\ {resp.data.endorser, resp.data.endorsee} \subseteq Ids(profiles)

\* C8: after every request each stored skill has one of the four
\* proficiencies, and a create, or an update or partial_update of a stored
\* skill, whose payload gives any other proficiency is answered 400 and
\* leaves the store as it was.
C8_ProficiencyChoices ==
    [][/\ \A k \in skills' :
            k.proficiency \in {"beginner", "intermediate", "advanced", "expert"}
       /\ (/\ \/ Request("skill", "create")
              \/ /\ Request("skill", "update") \/ Request("skill", "partial_update")
                 /\ resp'.pk \in Ids(skills)
           /\ resp'.tok \in access
           /\ resp'.data.proficiency
                \notin {"beginner", "intermediate", "advanced", "expert", Absent})
          => (resp'.status = 400 /\ store' = store)]_vars

\* A partial update of a stored skill to a proficiency outside the four was
\* refused.
C8_Witness ==
    /\ resp.ent = "skill" /\ resp.op = "partial_update" /\ resp.status = 400
    /\ resp.pk \in Ids(skills)
    /\ resp.data.proficiency = "guru"
    /\ resp.data.profile = NullId /\ resp.data.skill_name = Absent

\* C6: after every request no two stored profiles are of the same account,
\* and a create whose payload names an account that has a profile fails and
\* leaves the profiles as they were.
C6_OneProfilePerAccount ==
    [][/\ \A p, q \in profiles' : p.id = q.id => p = q
       /\ (/\ Request("profile", "create") /\ resp'.tok \in access
           /\ resp'.data.id \in Ids(profiles))
          => (resp'.status \notin {200, 201} /\ profiles' = profiles)]_vars

\* C7: a create with a valid email and a name is answered 201 with the
\* stored row, its id and timestamps set; a retrieve of a stored profile is
\* answered 200 with that row; a retrieve of an id that is not stored (as
\* after its delete) is answered 404.
C7_CreateRetrieveDelete ==
    [][/\ (/\ Request("profile", "create") /\ resp'.tok \in access
           /\ resp'.data.email \in ValidEmails /\ resp'.data.full_name # Absent)
          => (/\ resp'.status = 201
              /\ \E r \in resp'.body :
                    /\ r.id # NullId /\ r \in profiles' \ profiles
                    /\ r.email = resp'.data.email /\ r.full_name = resp'.data.full_name
                    /\ r.created_at = now /\ r.updated_at = now)
       /\ (Request("profile", "retrieve") /\ resp'.tok \in access /\ resp'.pk \in Ids(profiles))
          => (resp'.status = 200 /\ resp'.body = {Row(profiles, resp'.pk)})
       /\ (Request("profile", "retrieve") /\ resp'.tok \in access /\ resp'.pk \notin Ids(profiles))
          => resp'.status = 404]_vars

Collections == {"profile", "skill", "project", "connection", "message", "endorsement"}
Operations == {"list", "retrieve", "create", "update", "partial_update", "destroy"}

\* C9: a list, retrieve, create, update, partial_update or destroy request
\* on any of the six collections whose bearer token is not a live access
\* token is answered 401 with no record in the body, and the store is left
\* as it was.
C9_Unauthorized ==
    [][(/\ \E ent \in Collections, op \in Operations : Request(ent, op)
        /\ resp'.tok \notin access)
       => (resp'.status = 401 /\ resp'.body = {} /\ store' = store)]_vars

\* A delete of a stored skill was refused for a token that had run out,
\* with a profile and a skill stored.
C9_Witness ==
    /\ resp.ent = "skill" /\ resp.op = "destroy" /\ resp.status = 401
    /\ resp.tok = Bearer /\ Bearer \notin access
    /\ resp.pk \in Ids(skills)
    /\ profiles # {}

\* The step handles a request op on a token endpoint (no token runs out and
\* the clock stands still in such a step).
TokenRequest(op) ==
    /\ resp'.ent = "token" /\ resp'.op = op
    /\ access \subseteq access' /\ refresh \subseteq refresh' /\ now' = now

\* C10: obtain-token with the username of an account and its password is
\* answered 200 with a new access token and a new refresh token, and with
\* anything else 401 with no token issued; refresh-token with a live refresh
\* token is answered 200 with a new access token, and with any other token
\* 401 with no token issued; a protected GET (list or retrieve of projects)
\* with a live access token is not answered 401, and the list is answered
\* 200 with the stored rows.
C10_TokenLifecycle ==
    [][/\ (TokenRequest("obtain") /\ resp'.data.username \in users /\ resp'.data.password_ok)
          => (/\ resp'.status = 200
              /\ \E r \in resp'.body : /\ r.access \in access' \ (access \cup refresh)
                                       /\ r.refresh \in refresh' \ (access \cup refresh)
                                       /\ r.access # r.refresh)
       /\ (TokenRequest("obtain") /\ ~(resp'.data.username \in users /\ resp'.data.password_ok))
          => (resp'.status = 401 /\ resp'.body = {} /\ UNCHANGED tokens)
       /\ (TokenRequest("refresh") /\ resp'.data.refresh \in refresh)
          => (/\ resp'.status = 200 /\ refresh' = refresh
              /\ \E r \in resp'.body : r.access \in access' \ (access \cup refresh))
       /\ (TokenRequest("refresh") /\ resp'.data.refresh \notin refresh)
          => (resp'.status = 401 /\ resp'.body = {} /\ UNCHANGED tokens)
       /\ (/\ Request("project", "list") \/ Request("project", "retrieve")
           /\ resp'.tok \in access)
          => resp'.status # 401
       /\ (Request("project", "list") /\ resp'.tok \in access)
          => (resp'.status = 200 /\ resp'.body = projects)]_vars

\* The projects were listed, a stored project among them, with a live
\* access token given out after the first pair, a refresh token still live.
C10_Witness ==
    /\ resp.ent = "project" /\ resp.op = "list" /\ resp.status = 200
    /\ resp.body # {}
    /\ resp.tok \in access /\ resp.tok > Bearer + 1
    /\ refresh # {}

\* C11: a create, update or partial_update on any collection that is
\* refused, by the serializer (400) or, for a create, by the store (500),
\* leaves every stored row of every table as it was.
C11_RejectedWriteChangesNothing ==
    [][(/\ \E ent \in Collections, op \in {"create", "update", "partial_update"} :
                Request(ent, op)
        /\ \/ resp'.status = 400
           \/ resp'.status = 500 /\ resp'.op = "create")
       => store' = store]_vars

\* An update of a stored connection was refused for its status, its payload
\* naming a stored profile as follower that is not the stored follower.
C11_Witness ==
    /\ resp.ent = "connection" /\ resp.op = "update" /\ resp.status = 400
    /\ resp.pk \in Ids(connections)
    /\ resp.data.status = "blocked"
    /\ resp.data.follower \in Ids(profiles)
    /\ resp.data.following \in Ids(profiles)
    /\ resp.data.follower # Row(connections, resp.pk).follower

\* The stored rows of a collection.
Stored(ent) ==
    CASE ent = "profile" -> profiles
      [] ent = "skill" -> skills
      [] ent = "project" -> projects
      [] ent = "connection" -> connections
      [] ent = "message" -> messages
      [] ent = "endorsement" -> endorsements

\* C12: on every collection a delete of a stored id is answered 204 and the
\* row is gone; a delete of an id that is not stored is answered 404 and
\* leaves the store as it was; so a delete of the id just deleted is
\* answered 404.
C12_DeleteThenNotFound ==
    [][\A ent \in Collections :
        (Request(ent, "destroy") /\ resp'.tok \in access) =>
            /\ resp'.pk \in Ids(Stored(ent))
                => (resp'.status = 204 /\ resp'.pk \notin Ids(Stored(ent)'))
            /\ resp'.pk \notin Ids(Stored(ent))
                => (resp'.status = 404 /\ store' = store)
            /\ (/\ resp.ent = ent /\ resp.op = "destroy" /\ resp.status = 204
                /\ resp.pk = resp'.pk)
                => resp'.status = 404]_vars

\* A delete of the last endorsement id was answered 404 after the row with
\* that id had been created and was gone again.
C12_Witness ==
    /\ resp.ent = "endorsement" /\ resp.op = "destroy" /\ resp.status = 404
    /\ resp.tok \in access
    /\ nextEndorsement > MaxEndorsements /\ resp.pk = MaxEndorsements
    /\ endorsements = {}

\* C13: on every collection a retrieve, update or partial_update of an id
\* that is not stored is answered 404 and leaves the store as it was.
C13_AbsentIdNotFound ==
    [][\A ent \in Collections, op \in {"retrieve", "update", "partial_update"} :
        (/\ Request(ent, op) /\ resp'.tok \in access
         /\ resp'.pk \notin Ids(Stored(ent)))
        => (resp'.status = 404 /\ resp'.body = {} /\ store' = store)]_vars

\* An update of the last message id was answered 404 after the row with
\* that id had been created and was gone again, its payload naming profiles
\* that are not stored either.
C13_Witness ==
    /\ resp.ent = "message" /\ resp.op = "update" /\ resp.status = 404
    /\ resp.tok \in access
    /\ nextMessage > MaxMessages /\ resp.pk = MaxMessages
    /\ messages = {} /\ profiles = {}

\* C14: a create answered 201 on any collection adds exactly one row to
\* that collection and touches no other: the row's id is not the id of any
\* row stored before, and its timestamps are the server's clock, whatever id
\* and timestamps the payload gives.
C14_ServerAssignedFields ==
    [][\A ent \in Collections :
        (Request(ent, "create") /\ resp'.status = 201) =>
            /\ \E r \in Stored(ent)' :
                /\ r \notin Stored(ent)
                /\ Stored(ent)' = Stored(ent) \cup {r}
                /\ r.id # NullId /\ r.id \notin Ids(Stored(ent))
                /\ r.created_at = now /\ r.created_at # resp'.data.created_at
                /\ ent \in {"profile", "project"} => r.updated_at = now
            /\ \A other \in Collections \ {ent} : Stored(other)' = Stored(other)]_vars

\* A second skill was created with a payload giving the first skill's id
\* and a time of its own, after the clock had moved.
C14_Witness ==
    /\ resp.ent = "skill" /\ resp.op = "create" /\ resp.status = 201
    /\ Cardinality(skills) = 2 /\ now > 0
    /\ \E r \in resp.body, k \in skills :
        /\ r \in skills /\ k # r
        /\ resp.data.id = k.id /\ r.id # k.id
        /\ r.created_at = now /\ resp.data.created_at # now

\* C15: a message is stored with read = false by a create whatever the
\* payload gives for read, and no create, update or partial_update changes
\* the read flag of a stored message: after every request every stored
\* message is unread.
C15_ReadNotWritable ==
    [][/\ (Request("message", "create") /\ resp'.status = 201)
          => \E m \in messages' \ messages : ~m.read
       /\ \A m \in messages, n \in messages' : m.id = n.id => n.read = m.read
       /\ \A n \in messages' : ~n.read]_vars

\* A stored message was updated with a payload giving read = true and is
\* still unread.
C15_Witness ==
    /\ resp.ent = "message" /\ resp.op \in {"update", "partial_update"}
    /\ resp.status = 200
    /\ resp.data.read
    /\ \E m \in resp.body : m \in messages /\ ~m.read

\* The step is the write of an in-flight request op on collection ent.
Written(ent, op) ==
    /\ resp'.ent = ent /\ resp'.op = op
    /\ inflight' # inflight /\ inflight' \subseteq inflight

\* C16: with the creates of two clients interleaved between validation and
\* insert, no two stored connections have the same pair and no two stored
\* endorsements the same triple, and the insert of a pair or triple that is
\* stored by then is answered with a validation error (400) and stores
\* nothing.
C16_ConcurrentDuplicateRejected ==
    [][/\ ConnectionPairsUnique' /\ EndorsementTriplesUnique'
       /\ (/\ Written("connection", "create")
           /\ \E x \in connections : /\ x.follower = resp'.data.follower
                                     /\ x.following = resp'.data.following)
          => (resp'.status = 400 /\ connections' = connections)
       /\ (/\ Written("endorsement", "create")
           /\ \E e \in endorsements : /\ e.endorser = resp'.data.endorser
                                      /\ e.endorsee = resp'.data.endorsee
                                      /\ e.skill = resp'.data.skill)
          => (resp'.status = 400 /\ endorsements' = endorsements)]_vars

C17_OutcomeKinds ==
    [][(\E ent \in Collections, op \in Operations : Request(ent, op))
       => resp'.status \in {200, 201, 204, 400, 401, 404}]_vars

\* C18: a list with a live access token on any collection is answered 200
\* with exactly the rows of that collection that are stored, as they are
\* stored.
C18_ListReturnsStored ==
    [][\A ent \in Collections :
        (Request(ent, "list") /\ resp'.tok \in access)
        => (resp'.status = 200 /\ resp'.body = Stored(ent))]_vars

\* C20: an update or partial_update of a stored connection X whose pair,
\* the payload's completed from X, is the pair of another stored connection
\* is answered 400 and leaves the connections as they were; one whose pair
\* is X's own, with a status of the list or none, is answered 200 and X
\* keeps its pair and takes the status given.
C20_UpdateUniqueness ==
    [][\A op \in {"update", "partial_update"} :
        (/\ Request("connection", op) /\ resp'.tok \in access
         /\ resp'.pk \in Ids(connections)) =>
        LET X == CHOOSE x \in connections : x.id = resp'.pk
            data == resp'.data
            follower == IF data.follower = NullId THEN X.follower ELSE data.follower
            following == IF data.following = NullId THEN X.following ELSE data.following
            given == op = "partial_update"
                     \/ (data.follower # NullId /\ data.following # NullId)
        IN /\ (\E Y \in connections :
                    Y.id # X.id /\ Y.follower = follower /\ Y.following = following)
              => (resp'.status = 400 /\ connections' = connections)
           /\ (/\ follower = X.follower /\ following = X.following /\ given
               /\ data.status \in STATUS_CHOICES \cup {Absent})
              => (/\ resp'.status = 200
                  /\ \E row \in connections' :
                        /\ row.id = X.id
                        /\ row.follower = X.follower /\ row.following = X.following
                        /\ data.status # Absent => row.status = data.status
                        /\ connections' \ {row} = connections \ {X})]_vars

\* A full update of a stored connection to the pair of the other stored
\* connection, both profiles stored and the status in the list, was
\* refused.
C20_Witness ==
    /\ resp.ent = "connection" /\ resp.op = "update" /\ resp.status = 400
    /\ resp.pk \in Ids(connections)
    /\ resp.data.status = "pending"
    /\ {resp.data.follower, resp.data.following} \subseteq Ids(profiles)
    /\ \E Y \in connections :
        /\ Y.id # resp.pk
        /\ Y.follower = resp.data.follower /\ Y.following = resp.data.following

\* C21: after every request each stored connection has status pending or
\* connected; a create answered 201 whose payload gives no status stores
\* status connected; a create, or an update or partial_update of a stored
\* connection, whose payload gives any other status is answered 400 and
\* leaves the store as it was.
C21_StatusChoices ==
    [][/\ \A x \in connections' : x.status \in {"pending", "connected"}
       /\ (/\ Request("connection", "create") /\ resp'.status = 201
           /\ resp'.data.status = Absent)
          => \E x \in connections' \ connections : x.status = "connected"
       /\ (/\ \/ Request("connection", "create")
              \/ /\ Request("connection", "update") \/ Request("connection", "partial_update")
                 /\ resp'.pk \in Ids(connections)
           /\ resp'.tok \in access
           /\ resp'.data.status \notin {"pending", "connected", Absent})
          => (resp'.status = 400 /\ store' = store)]_vars

\* A full update of a stored connection that keeps its pair and gives a
\* status outside the list was refused.
C21_Witness ==
    /\ resp.ent = "connection" /\ resp.op = "update" /\ resp.status = 400
    /\ resp.data.status = "blocked"
    /\ \E x \in connections :
        /\ x.id = resp.pk
        /\ x.follower = resp.data.follower /\ x.following = resp.data.following

\* C22: a create of a connection whose follower and following are the same
\* stored profile, with a status of the list or none, is answered 201 and
\* the row is stored when no connection has that pair, and is answered 400
\* and stores nothing when one has.
C22_SelfFollow ==
    [][(/\ Request("connection", "create") /\ resp'.tok \in access
        /\ resp'.data.follower = resp'.data.following
        /\ resp'.data.follower \in Ids(profiles)
        /\ resp'.data.status \in STATUS_CHOICES \cup {Absent})
       => IF \E x \in connections : /\ x.follower = resp'.data.follower
                                    /\ x.following = resp'.data.follower
          THEN resp'.status = 400 /\ connections' = connections
          ELSE /\ resp'.status = 201
               /\ \E x \in connections' \ connections :
                    /\ x.follower = resp'.data.follower
                    /\ x.following = resp'.data.follower
                    /\ connections' = connections \cup {x}]_vars

\* The second create of a self-pair was refused, the first one stored.
C22_Witness ==
    /\ resp.ent = "connection" /\ resp.op = "create" /\ resp.status = 400
    /\ resp.data.follower = resp.data.following
    /\ resp.data.status \in STATUS_CHOICES \cup {Absent}
    /\ nextConnection <= MaxConnections
    /\ \E x \in connections : /\ x.follower = resp.data.follower
                              /\ x.following = x.follower


\* Row r of collection other references row pk of collection ent: through a
\* foreign key, or, under a profile, through a skill of that profile.
Refers(other, r, ent, pk) ==
    CASE ent = "profile" /\ other \in {"skill", "project"} -> r.profile = pk
      [] ent = "profile" /\ other = "connection" -> r.follower = pk \/ r.following = pk
      [] ent = "profile" /\ other = "message" -> r.sender = pk \/ r.receiver = pk
      [] ent = "profile" /\ other = "endorsement" ->
            \/ r.endorser = pk \/ r.endorsee = pk
            \/ \E k \in skills : k.id = r.skill /\ k.profile = pk
      [] ent = "skill" /\ other = "endorsement" -> r.skill = pk
      [] OTHER -> FALSE

\* C23: a create answered 201 adds one row to its table and changes nothing
\* else; an update or partial_update answered 200 changes no row but the
\* one addressed; a delete answered 204 removes the addressed row, removes
\* from the other tables only rows that reference it (directly or through a
\* skill of a deleted profile) and changes no row that stays; and a write
\* or delete on a collection other than the profiles leaves the profiles as
\* they were.
C23_FrameEffect ==
    [][\A ent \in Collections :
        /\ (Request(ent, "create") /\ resp'.status = 201)
            => /\ Stored(ent) \subseteq Stored(ent)'
               /\ Cardinality(Stored(ent)' \ Stored(ent)) = 1
               /\ \A other \in Collections \ {ent} : Stored(other)' = Stored(other)
        /\ ((Request(ent, "update") \/ Request(ent, "partial_update"))
                /\ resp'.status = 200)
            => /\ {r \in Stored(ent) : r.id # resp'.pk}
                    = {r \in Stored(ent)' : r.id # resp'.pk}
               /\ \A other \in Collections \ {ent} : Stored(other)' = Stored(other)
        /\ (Request(ent, "destroy") /\ resp'.status = 204)
            => /\ Stored(ent)' = {r \in Stored(ent) : r.id # resp'.pk}
               /\ \A other \in Collections \ {ent} :
                    /\ Stored(other)' \subseteq Stored(other)
                    /\ \A r \in Stored(other) \ Stored(other)' :
                            Refers(other, r, ent, resp'.pk)
        /\ (/\ ent # "profile"
            /\ \E op \in {"create", "update", "partial_update", "destroy"} :
                    Request(ent, op)
            /\ resp'.status \in {200, 201, 204})
            => profiles' = profiles]_vars

\* A skill was deleted with its endorsements while another skill, an
\* endorsement for that one and the profiles are still stored.
C23_Witness ==
    /\ resp.ent = "skill" /\ resp.op = "destroy" /\ resp.status = 204
    /\ nextEndorsement > MaxEndorsements
    /\ Cardinality(skills) = 1 /\ Cardinality(endorsements) = 1
    /\ Cardinality(profiles) = 1

\* C24: a delete of a skill answered 204 removes the skill and exactly the
\* endorsements whose skill it is; a delete of profile P answered 204
\* removes every endorsement for a skill owned by P, whoever gave and
\* received it; and after every step each stored endorsement's skill is a
\* stored skill.
C24_SkillDeleteCascades ==
    [][/\ \A e \in endorsements' : e.skill \in Ids(skills')
       /\ (Request("skill", "destroy") /\ resp'.status = 204)
            => /\ resp'.pk \in Ids(skills) /\ resp'.pk \notin Ids(skills')
               /\ endorsements' = {e \in endorsements : e.skill # resp'.pk}
       /\ (Request("profile", "destroy") /\ resp'.status = 204)
            => \A e \in endorsements :
                    (\E k \in skills : k.id = e.skill /\ k.profile = resp'.pk)
                        => e \notin endorsements']_vars

\* A skill was deleted after two endorsements were given; what is left is
\* an endorsement for another skill, given by and to a profile that does
\* not own that skill.
C24_Witness ==
    /\ resp.ent = "skill" /\ resp.op = "destroy" /\ resp.status = 204
    /\ nextEndorsement > MaxEndorsements
    /\ \E e \in endorsements, k \in skills :
            /\ endorsements = {e}
            /\ k.id = e.skill /\ k.id # resp.pk
            /\ e.endorser # k.profile /\ e.endorsee # k.profile

\* The fields of a payload that a serializer writes, the ones it requires
\* on a full update, and whether a payload names a field.
Writable(ent) ==
    CASE ent = "profile" -> {"email", "full_name"}
      [] ent = "skill" -> {"profile", "skill_name", "proficiency"}
      [] ent = "project" -> {"profile", "title"}
      [] ent = "connection" -> {"follower", "following", "status"}
      [] ent = "message" -> {"sender", "receiver", "content"}
      [] ent = "endorsement" -> {"endorser", "endorsee", "skill"}

Required(ent) ==
    CASE ent = "profile" -> {"email"}
      [] ent = "connection" -> {"follower", "following"}
      [] OTHER -> Writable(ent)

References ==
    {"profile", "follower", "following", "sender", "receiver", "endorser", "endorsee",
     "skill"}

Names(data, f) == IF f \in References THEN data[f] # NullId ELSE data[f] # Absent

\* The fields in which the row of id pk of a collection differs before and
\* after the step.
Changed(ent, pk) ==
    LET old == Row(Stored(ent), pk)
        new == Row(Stored(ent)', pk)
    IN {f \in DOMAIN old : new[f] # old[f]}

\* C25 as stated: a partial_update answered 200 changes no field of the
\* row but writable fields its payload names, each to the payload's value,
\* and a full update of a stored row by an authenticated caller whose
\* payload leaves a required field out is answered 400 and leaves the store
\* as it was.
C25_OnlyNamedFieldsChange ==
    [][\A ent \in Collections :
        /\ (Request(ent, "partial_update") /\ resp'.status = 200)
            => /\ resp'.pk \in Ids(Stored(ent)) /\ resp'.pk \in Ids(Stored(ent)')
               /\ \A f \in Changed(ent, resp'.pk) :
                    /\ f \in Writable(ent) /\ Names(resp'.data, f)
                    /\ Row(Stored(ent)', resp'.pk)[f] = resp'.data[f]
        /\ (/\ Request(ent, "update") /\ resp'.tok \in access
            /\ resp'.pk \in Ids(Stored(ent))
            /\ \E f \in Required(ent) : ~Names(resp'.data, f))
            => resp'.status = 400 /\ store' = store]_vars

\* C25, amended: as stated, except that the partial_update of a row with
\* an updated_at field also sets that field to the time of the request.
C25_OnlyNamedFieldsAndUpdatedAtChange ==
    [][\A ent \in Collections :
        /\ (Request(ent, "partial_update") /\ resp'.status = 200)
            => /\ resp'.pk \in Ids(Stored(ent)) /\ resp'.pk \in Ids(Stored(ent)')
               /\ \A f \in Changed(ent, resp'.pk) :
                    IF f = "updated_at"
                    THEN Row(Stored(ent)', resp'.pk)[f] = now
                    ELSE /\ f \in Writable(ent) /\ Names(resp'.data, f)
                         /\ Row(Stored(ent)', resp'.pk)[f] = resp'.data[f]
        /\ (/\ Request(ent, "update") /\ resp'.tok \in access
            /\ resp'.pk \in Ids(Stored(ent))
            /\ \E f \in Required(ent) : ~Names(resp'.data, f))
            => resp'.status = 400 /\ store' = store]_vars

\* A project created before the clock moved was then given a new title by
\* a partial_update that names no profile: it has its profile and its
\* created_at, the new title, and the time of the request as updated_at.
C25_Witness ==
    /\ resp.ent = "project" /\ resp.op = "partial_update" /\ resp.status = 200
    /\ resp.data.profile = NullId /\ resp.data.title = "Blitz 2"
    /\ now > 0
    /\ \E r \in projects :
        /\ r.id = resp.pk /\ r.title = "Blitz 2"
        /\ r.created_at = 0 /\ r.updated_at = now

\* C26: an update or partial_update, whatever its answer and whatever id
\* and created_at its payload gives, leaves the ids of its collection as
\* they were; in every step a row stored before and after it under the same
\* id has the same created_at; and a retrieve answered 200 returns the
\* stored row, its id the one asked for.
C26_IdAndCreatedAtFixed ==
    [][\A ent \in Collections :
        /\ (Request(ent, "update") \/ Request(ent, "partial_update"))
            => Ids(Stored(ent)') = Ids(Stored(ent))
        /\ \A r \in Stored(ent), n \in Stored(ent)' :
                n.id = r.id => n.created_at = r.created_at
        /\ (Request(ent, "retrieve") /\ resp'.status = 200)
            => /\ resp'.pk \in Ids(Stored(ent))
               /\ resp'.body = {Row(Stored(ent), resp'.pk)}
               /\ Stored(ent)' = Stored(ent)]_vars

\* A connection created before the clock moved was updated by a payload
\* that names another id and another created_at: it is stored under its id
\* with the created_at of its creation.
C26_Witness ==
    /\ resp.ent = "connection" /\ resp.op = "update" /\ resp.status = 200
    /\ now > 0
    /\ \E r \in connections :
        /\ r.id = resp.pk /\ resp.data.id # r.id
        /\ r.created_at = 0 /\ resp.data.created_at # r.created_at
        /\ r.status = "pending"

====
